---------------------------- MODULE Spec2Model ----------------------------
(***************************************************************************)
(* Verification model of the multi-agent translation pipeline              *)
(* (lyl-eng/finaldesign): the chunker, the trace store, the stage driver   *)
(* with its chunk workers, the terminology consistency check, the LLM      *)
(* requests with their limiter wait and call counter, and the translation  *)
(* of one chunk of several lines.                                          *)
(*                                                                         *)
(* One set of variables is shared by several specifications; each          *)
(* specification drives one component and leaves the others idle.          *)
(***************************************************************************)
EXTENDS Integers, Sequences, FiniteSets, TLC

VARIABLES
    ck_input,      \* chunker: the cache items of the project, in file order
    ck_pc,         \* chunker: "ready" before the call, "done" after it
    ck_chunks,     \* chunker: the chunks returned by _prepare_translation_chunks
    pl_strategies, \* planner: task_memory["chunk_strategies"]
    st_traces,     \* store: the committed rows of agent_traces of each atom_id
    st_atoms,      \* store: processing_atoms, atom_id -> translated_text, status_code
    st_tx,         \* store: the open transaction of each concurrent add_trace call
    work_status,   \* Base.work_status
    project,       \* the cache project of the run: its lines, its db_atom_map
    drv,           \* the driver thread: its position and loop counters
    published,     \* the agent_stage.stage values of the TASK_UPDATE events
    tool_calls,    \* the workflow tools invoked so far
    workflow_state,   \* WorkflowManager._workflow_state
    wk,               \* the _translate_chunk call of each chunk
    translated_texts, \* the translated text of each chunk's line
    cache_items,      \* CacheItem.translated_text of each line
    all_chunks_data,  \* execute's list of successful chunks
    agent_attrs,      \* attributes set on the translation agent at run time
    ec_in,         \* consistency check: the term table, the source, the line
    ec_pc,         \* consistency check: "ready" before the call, "done" after
    ec_out,        \* consistency check: the returned line, whether reported
    th,            \* request threads: the LLM request each one is making
    active_llm_calls,  \* stats_data.active_llm_calls
    tc,            \* one _translate_chunk call over a chunk of several lines
    stats_line,    \* stats_data.line, the user-visible translated-line count
    rv,            \* review selection: the scored lines, the batch offered
    sf,            \* a run whose store calls can fail: its position, its results
    ds,            \* documents and atoms: source_docs, processing_atoms, calls
    pool,          \* the translation thread pool: its plan, its size, its threads
    tl,            \* translate_and_refine invocations: did_translate, positions
    ex,            \* multi_agent_translation_start: its position, its events
    sg,            \* stats_data.current_stage and stage progress, the workers
    lc,            \* stats_data.line and total_line, the chunks being counted
    cr             \* the chunk results of a run: the four lists of each

chunkerVars == <<ck_input, ck_pc, ck_chunks, pl_strategies>>

storeVars == <<st_traces, st_atoms, st_tx>>

flowVars ==
    <<work_status, project, drv, published, tool_calls, workflow_state, wk,
      translated_texts, cache_items, all_chunks_data, agent_attrs>>

entityVars == <<ec_in, ec_pc, ec_out>>

requestVars == <<th, active_llm_calls>>

chunkCallVars == <<tc, stats_line>>

lateVars == <<ds, pool, tl, ex, sg, lc, cr>>

workerVars == <<th, active_llm_calls, tc, stats_line, rv, sf, lateVars>>

driverVars ==
    <<drv, published, tool_calls, workflow_state, wk, translated_texts,
      all_chunks_data, agent_attrs>>

\* What an LLM request leaves alone, and what a chunk call leaves alone.
restVars ==
    <<project, cache_items, driverVars, chunkerVars, storeVars, entityVars,
      rv, sf, lateVars>>

callerVars ==
    <<work_status, project, driverVars, chunkerVars, entityVars, requestVars,
      rv, sf, lateVars>>

vars ==
    <<ck_input, ck_pc, ck_chunks, pl_strategies, st_traces, st_atoms, st_tx, work_status,
      project, drv, published, tool_calls, workflow_state, wk,
      translated_texts, cache_items, all_chunks_data, agent_attrs, ec_in,
      ec_pc, ec_out, th, active_llm_calls, tc, stats_line, rv, sf, lateVars>>

-----------------------------------------------------------------------------
(* Generic sequence helpers                                                *)

RECURSIVE SumLen(_)
SumLen(s) == IF s = <<>> THEN 0 ELSE Head(s).len + SumLen(Tail(s))

RECURSIVE Flatten(_)
Flatten(ss) == IF ss = <<>> THEN <<>> ELSE Head(ss) \o Flatten(Tail(ss))

SeqsUpTo(S, n) == UNION {[1..k -> S] : k \in 0..n}

-----------------------------------------------------------------------------
(* Chunker: TranslationRefinementAgent._prepare_translation_chunks         *)

MaxItems == 3

MAX_CHUNK_CHARS == 6000

\* Source-text lengths around the budget: two halves, just over a half,
\* exactly the budget, and just over it.
LenValues == {MAX_CHUNK_CHARS \div 2, MAX_CHUNK_CHARS \div 2 + 1,
              MAX_CHUNK_CHARS, MAX_CHUNK_CHARS + 1}

FileIds == {1, 2}

\* A cache item: the file it belongs to, its source-text length, and whether
\* its translation_status is UNTRANSLATED.
ItemKinds == [file : FileIds, len : LenValues, untranslated : BOOLEAN]

\* cache_project.files is an ordered map: items arrive grouped by file.
ProjectInputs ==
    {s \in SeqsUpTo(ItemKinds, MaxItems) :
        \A i \in 1..Len(s), j \in 1..Len(s) : i < j => s[i].file <= s[j].file}

\* Items carry their position in the project so that two items of equal
\* length stay distinguishable.
Tagged(s) == [i \in 1..Len(s) |-> [id |-> i, file |-> s[i].file,
                                   len |-> s[i].len,
                                   untranslated |-> s[i].untranslated]]

\* items = [item for item in cache_file.items if status == UNTRANSLATED]
UntranslatedOf(s, f) ==
    SelectSeq(Tagged(s), LAMBDA it : it.file = f /\ it.untranslated)

\* is_extreme_long = source_text_length > MAX_CHUNK_CHARS
IsExtremeLong(L) == L > MAX_CHUNK_CHARS

OverBudgetNever(chars, L) == FALSE

\* chunk_chars + source_text_length > MAX_CHUNK_CHARS
OverBudget(chars, L) == chars + L > MAX_CHUNK_CHARS

\* if current_chunk: chunks.append(current_chunk)
FlushCurrent(chunks, current) ==
    IF current # <<>> THEN Append(chunks, current) ELSE chunks

\* The per-file loop body, item by item: current_chunk, chunk_chars and the
\* chunks emitted so far.
RECURSIVE ChunkLoop(_, _, _, _, _)
ChunkLoop(items, i, current, chunk_chars, chunks) ==
    IF i > Len(items)
    THEN FlushCurrent(chunks, current)
    ELSE LET item == items[i]
             chars == IF current = <<>> THEN 0 ELSE chunk_chars
         IN IF IsExtremeLong(item.len)
            THEN ChunkLoop(items, i + 1, <<>>, 0,
                           Append(FlushCurrent(chunks, current), <<item>>))
            ELSE IF current # <<>> /\ OverBudget(chars, item.len)
                 THEN ChunkLoop(items, i + 1, <<item>>, item.len,
                                Append(chunks, current))
                 ELSE ChunkLoop(items, i + 1, Append(current, item),
                                chars + item.len, chunks)

\* for file_path, cache_file in cache_project.files.items(): ...
PrepareTranslationChunks(s) ==
    ChunkLoop(UntranslatedOf(s, 1), 1, <<>>, 0, <<>>)
      \o ChunkLoop(UntranslatedOf(s, 2), 1, <<>>, 0, <<>>)

ChunkerInit ==
    /\ ck_input \in ProjectInputs
    /\ ck_pc = "ready"
    /\ ck_chunks = <<>>
    /\ pl_strategies = <<>>

ChunkerIdle ==
    /\ ck_input = <<>>
    /\ ck_pc = "idle"
    /\ ck_chunks = <<>>
    /\ pl_strategies = <<>>

PrepareChunks ==
    /\ ck_pc = "ready"
    /\ ck_chunks' = PrepareTranslationChunks(ck_input)
    /\ ck_pc' = "done"
    /\ UNCHANGED <<ck_input, pl_strategies, storeVars, flowVars, entityVars,
                   workerVars>>

\* PlanningAgent._analyze_chunks_and_assign_strategies: the planner packs
\* the untranslated items by its own loop and tags every chunk it closes.

\* _analyze_chunk_strategy(chunk, chunk_index): the tag of one chunk; the
\* strategy is computed from the chunk's items, which the record keeps.
StrategyInfo(chunk, chunk_index) ==
    [chunk_index |-> chunk_index, chunk |-> chunk]

PlannerOverBudgetInclusive(chars, L) == chars + L >= MAX_CHUNK_CHARS

\* current_chunk and (chunk_chars + source_text_length > MAX_CHUNK_CHARS)
PlannerOverBudget(chars, L) == chars + L > MAX_CHUNK_CHARS

\* chunk_strategies.append(strategy_info); chunk_index += 1
Tag(strategies, chunk) ==
    Append(strategies, StrategyInfo(chunk, Len(strategies)))

\* The planner's loop over the items of one file; chunk_index runs on from
\* file to file, so it is the number of chunks tagged so far.
RECURSIVE AnalyzeLoop(_, _, _, _, _)
AnalyzeLoop(items, i, current_chunk, chunk_chars, strategies) ==
    IF i > Len(items)
    THEN IF current_chunk # <<>> THEN Tag(strategies, current_chunk)
         ELSE strategies
    ELSE LET item == items[i]
         IN IF item.len > MAX_CHUNK_CHARS
            THEN AnalyzeLoop(items, i + 1, <<>>, 0,
                             Tag(IF current_chunk # <<>>
                                 THEN Tag(strategies, current_chunk)
                                 ELSE strategies,
                                 <<item>>))
            ELSE IF current_chunk # <<>>
                      /\ PlannerOverBudget(chunk_chars, item.len)
                 THEN AnalyzeLoop(items, i + 1, <<item>>, item.len,
                                  Tag(strategies, current_chunk))
                 ELSE AnalyzeLoop(items, i + 1, Append(current_chunk, item),
                                  chunk_chars + item.len, strategies)

AnalyzeChunksAndAssignStrategies(s) ==
    AnalyzeLoop(UntranslatedOf(s, 2), 1, <<>>, 0,
                AnalyzeLoop(UntranslatedOf(s, 1), 1, <<>>, 0, <<>>))

\* None as a chunk's strategy info: the agent then translates with "free".
NoStrategy == [chunk_index |-> -1, chunk |-> <<>>]

\* chunk_strategies[chunk_idx - 1] if chunk_idx - 1 < len(chunk_strategies)
\* else None, with chunk_idx counted from 1 over the agent's chunks.
ChunkStrategyInfo(strategies, chunk_idx) ==
    IF chunk_idx - 1 < Len(strategies) THEN strategies[chunk_idx]
    ELSE NoStrategy

PlannerInit ==
    /\ ck_input \in ProjectInputs
    /\ ck_pc = "planning"
    /\ ck_chunks = <<>>
    /\ pl_strategies = <<>>

\* PlanningAgent.execute: on success task_memory carries the tags; when it
\* fails the workflow goes on with an empty task memory.
AnalyzeChunks ==
    /\ ck_pc = "planning"
    /\ \E success \in BOOLEAN :
          pl_strategies' = IF success
                           THEN AnalyzeChunksAndAssignStrategies(ck_input)
                           ELSE <<>>
    /\ ck_pc' = "ready"
    /\ UNCHANGED <<ck_input, ck_chunks, storeVars, flowVars, entityVars,
                   workerVars>>

-----------------------------------------------------------------------------
(* Store: DatabaseManager.add_trace / update_atom_translation /            *)
(* get_active_translation over PostgreSQL (READ COMMITTED, the psycopg2    *)
(* default; idx_traces_active is a plain, non-unique partial index).       *)

NAtoms == 2

NClients == 2

MaxTraces == 2

Atoms == 1..NAtoms

Clients == 1..NClients

ActionTypes == {"draft", "refine", "evaluate", "final", "human_edit"}

NULL == "NULL"

\* is_translation_action = action_type in ['draft','refine','final','human_edit']
IsTranslationActionAll(action_type) == TRUE

IsTranslationAction(action_type) ==
    action_type \in {"draft", "refine", "final", "human_edit"}

\* One row of agent_traces; the model keeps the rows of each atom_id apart,
\* in insert order.
TraceRow(action_type, content) ==
    [action |-> action_type, content |-> content,
     is_active |-> IsTranslationAction(action_type)]

\* The rows matched by
\*   UPDATE agent_traces SET is_active = FALSE
\*   WHERE atom_id = %s AND is_active = TRUE
ActiveRows(traces, atom_id) ==
    {i \in 1..Len(traces[atom_id]) : traces[atom_id][i].is_active}

Deactivate(rows_of_atom, rows) ==
    [i \in 1..Len(rows_of_atom) |->
        IF i \in rows THEN [rows_of_atom[i] EXCEPT !.is_active = FALSE]
        ELSE rows_of_atom[i]]

\* add_trace without its UPDATE: the rows already active stay active.
AddTraceKeepActive(traces, atom_id, action_type, content) ==
    [traces EXCEPT ![atom_id] = Append(@, TraceRow(action_type, content))]

\* One add_trace call that runs alone: the UPDATE, the INSERT and the commit.
AddTrace(traces, atom_id, action_type, content) ==
    [traces EXCEPT ![atom_id] =
        Append(IF IsTranslationAction(action_type)
               THEN Deactivate(@, ActiveRows(traces, atom_id))
               ELSE @,
               TraceRow(action_type, content))]

\* update_atom_translation: one UPDATE of translated_text and status_code.
UpdateAtomTranslation(atoms, atom_id, text, status_code) ==
    [atoms EXCEPT ![atom_id] = [translated_text |-> text,
                                status_code |-> status_code]]

\* get_active_translation: SELECT content ... WHERE is_active LIMIT 1.
\* With several active rows the row returned is not determined.
GetActiveTranslation(traces, atom_id) ==
    IF ActiveRows(traces, atom_id) = {} THEN {NULL}
    ELSE {traces[atom_id][i].content : i \in ActiveRows(traces, atom_id)}

\* No add_trace call in progress; returned is how the last one ended: with
\* a trace id, with -1 ("failed") or with the connection error ("raised").
IdleTx == [pc |-> "idle", atom |-> 0, action |-> NULL, content |-> NULL,
           snap |-> {}, deact |-> {}, returned |-> "none"]

RECURSIVE SumOver(_, _)
SumOver(f, S) ==
    IF S = {} THEN 0
    ELSE LET x == CHOOSE y \in S : TRUE IN f[x] + SumOver(f, S \ {x})

TotalRows(traces) == SumOver([a \in Atoms |-> Len(traces[a])], Atoms)

\* Rows another open transaction has updated and not yet committed: the row
\* locks a concurrent UPDATE waits for.
LockedByOther(c) ==
    UNION {st_tx[d].deact : d \in {e \in Clients \ {c} :
                                     st_tx[e].atom = st_tx[c].atom}}

StoreContents == {"a"}

StoreInit ==
    /\ st_traces = [a \in Atoms |-> <<>>]
    /\ st_atoms = [a \in Atoms |-> [translated_text |-> NULL, status_code |-> 0]]
    /\ st_tx = [c \in Clients |-> IdleTx]

\* add_trace is entered: a connection is opened and, for a translation
\* action, the UPDATE statement takes its snapshot of the matching rows.
TxBegin(c) ==
    /\ st_tx[c].pc = "idle"
    /\ TotalRows(st_traces)
          + Cardinality({d \in Clients : st_tx[d].pc # "idle"}) < MaxTraces
    /\ \E a \in Atoms, t \in ActionTypes, x \in StoreContents :
          st_tx' = [st_tx EXCEPT ![c] =
                       [pc |-> IF IsTranslationAction(t) THEN "update"
                               ELSE "insert",
                        atom |-> a, action |-> t, content |-> x,
                        snap |-> IF IsTranslationAction(t)
                                 THEN ActiveRows(st_traces, a) ELSE {},
                        deact |-> {}, returned |-> "none"]]
    /\ UNCHANGED <<st_traces, st_atoms, chunkerVars, flowVars, entityVars,
                   workerVars>>

\* The UPDATE completes once no matched row is locked by another
\* transaction; a row that was locked is re-checked against its committed
\* version, rows inserted after the snapshot are not seen.
TxUpdate(c) ==
    /\ st_tx[c].pc = "update"
    /\ st_tx[c].snap \cap LockedByOther(c) = {}
    /\ st_tx' = [st_tx EXCEPT ![c].pc = "insert",
                              ![c].deact =
                                  {i \in st_tx[c].snap :
                                      st_traces[st_tx[c].atom][i].is_active}]
    /\ UNCHANGED <<st_traces, st_atoms, chunkerVars, flowVars, entityVars,
                   workerVars>>

\* The INSERT (its row stays invisible to others until the commit).
TxInsert(c) ==
    /\ st_tx[c].pc = "insert"
    /\ st_tx' = [st_tx EXCEPT ![c].pc = "commit"]
    /\ UNCHANGED <<st_traces, st_atoms, chunkerVars, flowVars, entityVars,
                   workerVars>>

\* conn.commit(): the deactivations and the new row become visible.
TxCommit(c) ==
    /\ st_tx[c].pc = "commit"
    /\ st_traces' = [st_traces EXCEPT ![st_tx[c].atom] =
                         Append(Deactivate(@, st_tx[c].deact),
                                TraceRow(st_tx[c].action, st_tx[c].content))]
    /\ st_tx' = [st_tx EXCEPT ![c] = [IdleTx EXCEPT !.returned = "trace_id"]]
    /\ UNCHANGED <<st_atoms, chunkerVars, flowVars, entityVars,
                   workerVars>>

\* A rollback that leaves the transaction's INSERT in the table.
RolledBackKeepsInsert(traces, tx) ==
    IF tx.pc = "commit"
    THEN [traces EXCEPT ![tx.atom] =
             Append(@, TraceRow(tx.action, tx.content))]
    ELSE traces

\* conn.rollback(): nothing the transaction did remains.
RolledBack(traces, tx) == traces

\* except Exception: conn.rollback(); return -1, from any statement of the
\* try block.
TxRollback(c) ==
    /\ st_tx[c].pc \in {"update", "insert", "commit"}
    /\ st_traces' = RolledBack(st_traces, st_tx[c])
    /\ st_tx' = [st_tx EXCEPT ![c] = [IdleTx EXCEPT !.returned = "failed"]]
    /\ UNCHANGED <<st_atoms, chunkerVars, flowVars, entityVars,
                   workerVars>>

\* get_pg_connection fails: it is called before the try block, so add_trace
\* raises to its caller with no transaction opened.
TxConnectFails(c) ==
    /\ st_tx[c].pc = "idle"
    /\ st_tx' = [st_tx EXCEPT ![c] = [IdleTx EXCEPT !.returned = "raised"]]
    /\ UNCHANGED <<st_traces, st_atoms, chunkerVars, flowVars, entityVars,
                   workerVars>>

-----------------------------------------------------------------------------
(* Stage driver: MultiAgentTaskExecutor.multi_agent_translation_start,     *)
(* WorkflowManager.execute_workflow, the three workflow tools and          *)
(* TranslationRefinementAgent.execute with its chunk workers.              *)
(* Every chunk holds one line, and line k is stored as atom k.             *)

StageOrder ==
    <<"planning", "preprocessing", "terminology", "translating",
      "backtranslation", "entity_check", "saving", "completed">>

Tools == {"preprocess_text", "identify_terminology", "translate_and_refine"}

\* The texts a line can carry: the model's translation, the placeholder
\* "[翻译失败]" + source, the reviewer's text, a retranslation, and the text
\* rewritten by the consistency check.
MT == "mt"

PLACEHOLDER == "placeholder"

CUSTOM == "custom"

RETRANSLATED == "retranslated"

FIXED == "fixed"

ReviewActions == {"accept", "custom", "retranslate"}

MaxDecisions == 2

NoWrite == [atom |-> 0, text |-> NULL, status_code |-> 0]

\* The chunks of this run: _prepare_translation_chunks over project.lines
\* untranslated one-line files.
Chunks == 1..project.lines

\* _get_atom_id: the id from cache_project.db_atom_map, None (0) without one.
GetAtomId(k) == IF project.has_atom_map THEN k ELSE 0

Publish(stages) == published' = published \o stages

\* db_manager.add_trace(atom_id, ...) guarded by "if atom_id:".
WriteTrace(atom_id, action_type, content) ==
    IF atom_id # 0
    THEN st_traces' = AddTrace(st_traces, atom_id, action_type, content)
    ELSE UNCHANGED st_traces

\* db_manager.update_atom_translation(atom_id, ...) guarded by "if atom_id:".
WriteAtom(atom_id, text, status_code) ==
    IF atom_id # 0
    THEN st_atoms' = UpdateAtomTranslation(st_atoms, atom_id, text,
                                           status_code)
    ELSE UNCHANGED st_atoms

FlowInit ==
    /\ work_status = "IDLE"
    /\ \E n \in 0..NAtoms, m \in BOOLEAN :
          project = [lines |-> n, has_atom_map |-> m]
    /\ drv = [pc |-> "idle", decisions |-> 0, chunk_idx |-> 0,
              pend |-> NoWrite, result |-> "none",
              review_invoked |-> FALSE, review_result |-> "not_called"]
    /\ published = <<>>
    /\ tool_calls = {}
    /\ workflow_state = [did_translate |-> FALSE, translation_results |-> 0,
                         enable_human_review |-> FALSE]
    /\ wk = [k \in Atoms |-> [pc |-> "none", stage_sent |-> FALSE]]
    /\ translated_texts = [k \in Atoms |-> NULL]
    /\ cache_items = [k \in Atoms |-> NULL]
    /\ all_chunks_data = <<>>
    /\ agent_attrs = {}

FlowIdle ==
    /\ work_status = "IDLE"
    /\ project = [lines |-> 0, has_atom_map |-> FALSE]
    /\ drv = [pc |-> "idle", decisions |-> 0, chunk_idx |-> 0,
              pend |-> NoWrite, result |-> "none",
              review_invoked |-> FALSE, review_result |-> "not_called"]
    /\ published = <<>>
    /\ tool_calls = {}
    /\ workflow_state = [did_translate |-> FALSE, translation_results |-> 0,
                         enable_human_review |-> FALSE]
    /\ wk = [k \in Atoms |-> [pc |-> "none", stage_sent |-> FALSE]]
    /\ translated_texts = [k \in Atoms |-> NULL]
    /\ cache_items = [k \in Atoms |-> NULL]
    /\ all_chunks_data = <<>>
    /\ agent_attrs = {}

\* multi_agent_translation_start up to the first statement of
\* execute_workflow's planning stage: work_status = TASKING, the shared
\* state is reset and "planning" is published.
TaskStart ==
    /\ drv.pc = "idle"
    /\ work_status' = "TASKING"
    /\ workflow_state' = [did_translate |-> FALSE, translation_results |-> 0,
                          enable_human_review |-> FALSE]
    /\ Publish(<<"planning">>)
    /\ drv' = [drv EXCEPT !.pc = "planning"]
    /\ UNCHANGED <<project, tool_calls, wk, translated_texts, cache_items,
                   all_chunks_data, agent_attrs, storeVars, chunkerVars, entityVars,
                   workerVars>>

\* planning_agent.execute returns: on success the workflow_config (human
\* review enabled) is stored and "planning" is published a second time.
PlanningDone ==
    /\ drv.pc = "planning"
    /\ \E success \in BOOLEAN :
          IF success
          THEN /\ workflow_state' =
                     [workflow_state EXCEPT !.enable_human_review = TRUE]
               /\ Publish(<<"planning">>)
          ELSE UNCHANGED <<workflow_state, published>>
    /\ drv' = [drv EXCEPT !.pc = "task1"]
    /\ UNCHANGED <<work_status, project, tool_calls, wk, translated_texts,
                   cache_items, all_chunks_data, agent_attrs, storeVars,
                   chunkerVars, entityVars,
                   workerVars>>

\* Task 1 invokes preprocess_text: "preprocessing" is published before and
\* after preprocessing_agent.execute.
PreprocessText ==
    /\ drv.pc = "task1"
    /\ "preprocess_text" \notin tool_calls
    /\ tool_calls' = tool_calls \cup {"preprocess_text"}
    /\ Publish(<<"preprocessing", "preprocessing">>)
    /\ UNCHANGED <<work_status, project, drv, workflow_state, wk,
                   translated_texts, cache_items, all_chunks_data,
                   agent_attrs, storeVars, chunkerVars, entityVars,
                   workerVars>>

\* Task 2 invokes identify_terminology.
IdentifyTerminology ==
    /\ drv.pc = "task2"
    /\ "identify_terminology" \notin tool_calls
    /\ tool_calls' = tool_calls \cup {"identify_terminology"}
    /\ Publish(<<"terminology", "terminology">>)
    /\ UNCHANGED <<work_status, project, drv, workflow_state, wk,
                   translated_texts, cache_items, all_chunks_data,
                   agent_attrs, storeVars, chunkerVars, entityVars,
                   workerVars>>

\* A ToolkitTask ends when its prompt driver answers without a further tool
\* call, whether or not the tool was invoked; the next task then starts.
TaskFinished ==
    /\ drv.pc \in {"task1", "task2", "task3"}
    /\ drv' = [drv EXCEPT !.pc = CASE drv.pc = "task1" -> "task2"
                                   [] drv.pc = "task2" -> "task3"
                                   [] OTHER -> "check"]
    /\ UNCHANGED <<work_status, project, published, tool_calls,
                   workflow_state, wk, translated_texts, cache_items,
                   all_chunks_data, agent_attrs, storeVars, chunkerVars, entityVars,
                   workerVars>>

\* Task 3 invokes translate_and_refine, which enters execute: the chunks are
\* prepared and "translating" is published; ThreadPoolExecutor(max_workers =
\* min(max_workers, total_units)) raises for an empty project, otherwise one
\* _translate_chunk is submitted per chunk.
TranslateAndRefine ==
    /\ drv.pc = "task3"
    /\ "translate_and_refine" \notin tool_calls
    /\ ~workflow_state.did_translate
    /\ tool_calls' = tool_calls \cup {"translate_and_refine"}
    /\ Publish(<<"translating">>)
    /\ IF project.lines = 0
       THEN UNCHANGED <<drv, wk>>
       ELSE /\ drv' = [drv EXCEPT !.pc = "pool"]
            /\ wk' = [k \in Atoms |->
                        IF k \in Chunks THEN [wk[k] EXCEPT !.pc = "translate"]
                        ELSE wk[k]]
    /\ UNCHANGED <<work_status, project, workflow_state, translated_texts,
                   cache_items, all_chunks_data, agent_attrs, storeVars,
                   chunkerVars, entityVars,
                   workerVars>>

\* _translate_chunk, step 1: the strategy translation with its line-by-line
\* fallback.  Every request first passes _wait_for_limiter, which refuses
\* while work_status is STOPING, and a refused or failed request leaves the
\* placeholder; an exception anywhere in the chunk is caught and the chunk
\* returns success = False.  The step ends with the test
\* "not hasattr(self, '_backtranslation_stage_sent')" that opens
\* _batch_tear_verification_with_scores.
WkTranslate(k) ==
    /\ drv.pc = "pool"
    /\ wk[k].pc = "translate"
    /\ \E outcome \in {MT, PLACEHOLDER, "exception"} :
          /\ work_status = "STOPING" => outcome # MT
          /\ IF outcome = "exception"
             THEN /\ wk' = [wk EXCEPT ![k].pc = "failed"]
                  /\ UNCHANGED translated_texts
             ELSE /\ wk' = [wk EXCEPT
                              ![k].pc = "tear",
                              ![k].stage_sent =
                                  "_backtranslation_stage_sent"
                                      \in agent_attrs]
                  /\ translated_texts' =
                        [translated_texts EXCEPT ![k] = outcome]
    /\ UNCHANGED <<work_status, project, drv, published, tool_calls,
                   workflow_state, cache_items, all_chunks_data,
                   agent_attrs, storeVars, chunkerVars, entityVars,
                   workerVars>>

\* The body of that test (publish "backtranslation", set the attribute),
\* the verification, the evaluate trace of the line, _update_cache_item and
\* the draft trace of the line.
WkTearVerify(k) ==
    /\ drv.pc = "pool"
    /\ wk[k].pc = "tear"
    /\ IF wk[k].stage_sent
       THEN UNCHANGED <<published, agent_attrs>>
       ELSE /\ Publish(<<"backtranslation">>)
            /\ agent_attrs' =
                  agent_attrs \cup {"_backtranslation_stage_sent"}
    /\ cache_items' = [cache_items EXCEPT ![k] = translated_texts[k]]
    /\ IF GetAtomId(k) # 0
       THEN st_traces' =
               AddTrace(AddTrace(st_traces, GetAtomId(k), "evaluate",
                                 "Quality Score"),
                        GetAtomId(k), "draft", translated_texts[k])
       ELSE UNCHANGED st_traces
    /\ wk' = [wk EXCEPT ![k].pc = "draft_update", ![k].stage_sent = FALSE]
    /\ UNCHANGED <<work_status, project, drv, tool_calls, workflow_state,
                   translated_texts, all_chunks_data, st_atoms, st_tx,
                   chunkerVars, entityVars,
                   workerVars>>

\* update_atom_translation(status_code = 1); the chunk returns and execute
\* collects its result in completion order.
WkDraftUpdate(k) ==
    /\ drv.pc = "pool"
    /\ wk[k].pc = "draft_update"
    /\ WriteAtom(GetAtomId(k), translated_texts[k], 1)
    /\ wk' = [wk EXCEPT ![k].pc = "done"]
    /\ all_chunks_data' = Append(all_chunks_data, k)
    /\ UNCHANGED <<work_status, project, drv, published, tool_calls,
                   workflow_state, translated_texts, cache_items,
                   agent_attrs, st_traces, st_tx, chunkerVars, entityVars,
                   workerVars>>

\* The lines offered for review: the REVIEW_COUNT lowest-scored ones.  The
\* scores are not modelled; with at most REVIEW_COUNT lines every line of
\* all_chunks_data is offered.
REVIEW_COUNT == 3

ReviewItems ==
    {all_chunks_data[i] :
        i \in 1..(IF Len(all_chunks_data) < REVIEW_COUNT
                  THEN Len(all_chunks_data) ELSE REVIEW_COUNT)}

\* The as_completed loop ends with the first finished chunk.
PoolJoinedAtFirstResult == \E k \in Chunks : wk[k].pc \in {"done", "failed"}

\* Leaving "with ThreadPoolExecutor(...) as executor": every submitted
\* _translate_chunk call has returned.
PoolJoined == \A k \in Chunks : wk[k].pc \in {"done", "failed"}

\* What the review callback returns: nothing (no interface context, a
\* cancelled dialog, an exception caught by the callback) or a list of
\* decisions.
ReviewResults == {"null", "decisions"}

HasDecisionsAlways(review_result) == TRUE

\* if review_result and review_result.get("review_results")
HasDecisions(review_result) == review_result = "decisions"

\* execute after the pool: _unified_human_review is entered.  It returns at
\* once unless review is enabled and a callback was handed in; otherwise the
\* callback is invoked and answers with a list of decisions or with nothing.
HumanReviewStart ==
    /\ drv.pc = "pool"
    /\ PoolJoined
    /\ \E has_callback \in BOOLEAN :
          IF workflow_state.enable_human_review /\ has_callback
          THEN \E review_result \in ReviewResults :
                  drv' = [drv EXCEPT !.pc = IF HasDecisions(review_result)
                                            THEN "decisions" ELSE "entity",
                                     !.review_invoked = TRUE,
                                     !.review_result = review_result]
          ELSE drv' = [drv EXCEPT !.pc = "entity"]
    /\ UNCHANGED <<work_status, project, published, tool_calls,
                   workflow_state, wk, translated_texts, cache_items,
                   all_chunks_data, agent_attrs, storeVars, chunkerVars, entityVars,
                   workerVars>>

\* One iteration of "for user_decision in review_result['review_results']".
\* The list is whatever the callback returned: each decision names any
\* offered line and any action.
ReviewDecision ==
    /\ drv.pc = "decisions"
    /\ drv.pend = NoWrite
    /\ drv.decisions < MaxDecisions
    /\ \E k \in ReviewItems, action \in ReviewActions, llm_ok \in BOOLEAN :
          LET new_text ==
                  CASE action = "custom" -> CUSTOM
                    [] action = "retranslate"
                         /\ llm_ok /\ work_status # "STOPING" -> RETRANSLATED
                    [] OTHER -> NULL
              atom_id == GetAtomId(k)
          IN  IF new_text = NULL
              THEN /\ drv' = [drv EXCEPT !.decisions = @ + 1]
                   /\ UNCHANGED <<translated_texts, st_traces>>
              ELSE /\ translated_texts' =
                         [translated_texts EXCEPT ![k] = new_text]
                   /\ WriteTrace(atom_id,
                                 IF action = "custom" THEN "human_edit"
                                 ELSE "refine", new_text)
                   /\ drv' = [drv EXCEPT
                                !.decisions = @ + 1,
                                !.pend = IF atom_id = 0 THEN NoWrite
                                         ELSE [atom |-> atom_id,
                                               text |-> new_text,
                                               status_code |->
                                                   IF action = "custom"
                                                   THEN 3 ELSE 2]]
    /\ UNCHANGED <<work_status, project, published, tool_calls,
                   workflow_state, wk, cache_items, all_chunks_data,
                   agent_attrs, st_atoms, st_tx, chunkerVars, entityVars,
                   workerVars>>

\* The update_atom_translation call that follows an add_trace call of the
\* review or of the consistency check.
UpdateAtomStep ==
    /\ drv.pend # NoWrite
    /\ st_atoms' = UpdateAtomTranslation(st_atoms, drv.pend.atom,
                                         drv.pend.text, drv.pend.status_code)
    /\ drv' = [drv EXCEPT !.pend = NoWrite]
    /\ UNCHANGED <<work_status, project, published, tool_calls,
                   workflow_state, wk, translated_texts, cache_items,
                   all_chunks_data, agent_attrs, st_traces, st_tx,
                   chunkerVars, entityVars,
                   workerVars>>

\* The decision list is exhausted: _unified_human_review returns and its
\* loop position is gone.
HumanReviewEnd ==
    /\ drv.pc = "decisions"
    /\ drv.pend = NoWrite
    /\ drv' = [drv EXCEPT !.pc = "entity", !.decisions = 0]
    /\ UNCHANGED <<work_status, project, published, tool_calls,
                   workflow_state, wk, translated_texts, cache_items,
                   all_chunks_data, agent_attrs, storeVars, chunkerVars, entityVars,
                   workerVars>>

\* One iteration of _unified_entity_check's loop over all_chunks_data: the
\* first one publishes "entity_check"; _check_entity_consistency either
\* leaves the line or rewrites it, and only a rewritten line gets a final
\* trace and status_code 4.
EntityCheckChunk ==
    /\ drv.pc = "entity"
    /\ drv.pend = NoWrite
    /\ drv.chunk_idx < Len(all_chunks_data)
    /\ IF drv.chunk_idx = 0 /\ "_entity_check_stage_sent" \notin agent_attrs
       THEN /\ Publish(<<"entity_check">>)
            /\ agent_attrs' = agent_attrs \cup {"_entity_check_stage_sent"}
       ELSE UNCHANGED <<published, agent_attrs>>
    /\ LET k == all_chunks_data[drv.chunk_idx + 1]
           atom_id == GetAtomId(k)
       IN  \E rewritten \in BOOLEAN :
              IF rewritten
              THEN /\ translated_texts' =
                         [translated_texts EXCEPT ![k] = FIXED]
                   /\ WriteTrace(atom_id, "final", FIXED)
                   /\ drv' = [drv EXCEPT
                                !.chunk_idx = @ + 1,
                                !.pend = IF atom_id = 0 THEN NoWrite
                                         ELSE [atom |-> atom_id,
                                               text |-> FIXED,
                                               status_code |-> 4]]
              ELSE /\ drv' = [drv EXCEPT !.chunk_idx = @ + 1]
                   /\ UNCHANGED <<translated_texts, st_traces>>
    /\ UNCHANGED <<work_status, project, tool_calls, workflow_state, wk,
                   cache_items, all_chunks_data, st_atoms, st_tx,
                   chunkerVars, entityVars,
                   workerVars>>

\* The end of execute: the cache items take the checked texts and execute
\* returns success = True with the collected results; translate_and_refine
\* stores did_translate and translation_results in the shared state.
ExecuteReturn ==
    /\ drv.pc = "entity"
    /\ drv.pend = NoWrite
    /\ drv.chunk_idx = Len(all_chunks_data)
    /\ cache_items' =
          [k \in Atoms |->
              IF \E i \in 1..Len(all_chunks_data) : all_chunks_data[i] = k
              THEN translated_texts[k] ELSE cache_items[k]]
    /\ workflow_state' =
          [workflow_state EXCEPT
              !.did_translate = TRUE,
              !.translation_results = Len(all_chunks_data)]
    /\ drv' = [drv EXCEPT !.pc = "task3"]
    /\ UNCHANGED <<work_status, project, published, tool_calls, wk,
                   translated_texts, all_chunks_data, agent_attrs,
                   storeVars, chunkerVars, entityVars,
                   workerVars>>

\* execute_workflow after griptape_workflow.run:
\*   if did_translate and translated_count > 0: success, else raise.
WorkflowSucceededAnyCount(state) == state.did_translate

WorkflowSucceeded(state) ==
    state.did_translate /\ state.translation_results > 0

\* A failed check raises RuntimeError, which multi_agent_translation_start
\* logs before its finally block sets work_status = TASKSTOPPED.
WorkflowCheck ==
    /\ drv.pc = "check"
    /\ IF WorkflowSucceeded(workflow_state)
       THEN /\ drv' = [drv EXCEPT !.pc = "saving", !.result = "success"]
            /\ UNCHANGED work_status
       ELSE /\ drv' = [drv EXCEPT !.pc = "stopped", !.result = "raised"]
            /\ work_status' = "TASKSTOPPED"
    /\ UNCHANGED <<project, published, tool_calls, workflow_state, wk,
                   translated_texts, cache_items, all_chunks_data,
                   agent_attrs, storeVars, chunkerVars, entityVars,
                   workerVars>>

\* multi_agent_translation_start on success: "saving" is published, the
\* files are written (an exception there ends the run), "completed" is
\* published; finally: work_status = TASKSTOPPED.
SaveStagesCompletedFirst(raised) == <<"completed", "saving">>

SaveStages(raised) ==
    IF raised THEN <<"saving">> ELSE <<"saving", "completed">>

SaveAndComplete ==
    /\ drv.pc = "saving"
    /\ \E raised \in BOOLEAN : Publish(SaveStages(raised))
    /\ drv' = [drv EXCEPT !.pc = "stopped"]
    /\ work_status' = "TASKSTOPPED"
    /\ UNCHANGED <<project, tool_calls, workflow_state, wk,
                   translated_texts, cache_items, all_chunks_data,
                   agent_attrs, storeVars, chunkerVars, entityVars,
                   workerVars>>

\* task_stop: the stop flag is raised while the run is in progress.
TaskStop ==
    /\ work_status = "TASKING"
    /\ work_status' = "STOPING"
    /\ UNCHANGED <<project, drv, published, tool_calls, workflow_state, wk,
                   translated_texts, cache_items, all_chunks_data,
                   agent_attrs, storeVars, chunkerVars, entityVars,
                   workerVars>>

-----------------------------------------------------------------------------
(* Consistency check of one line:                                          *)
(* TranslationRefinementAgent._check_entity_consistency.                   *)
(* Strings are sequences of characters.                                    *)

MaxTerms == 2

MaxStrLen == 2

Chars == {"a", "A", "b", "-"}

Strings == SeqsUpTo(Chars, MaxStrLen)

\* The terms and the expected translations of the terminology database.
TermNames == {<<"a">>, <<"b">>, <<"A", "b">>}

TermTranslations == {<<>>, <<"a">>, <<"b">>, <<"A">>, <<"a", "-", "b">>}

\* terminology_db in insertion order: distinct terms, each with a
\* translation.
TermTables ==
    {t \in SeqsUpTo([term : TermNames, translation : TermTranslations],
                    MaxTerms) :
        \A i, j \in 1..Len(t) : i # j => t[i].term # t[j].term}

\* str.lower()
LowerChar(c) == IF c = "A" THEN "a" ELSE c

Lower(s) == [i \in 1..Len(s) |-> LowerChar(s[i])]

\* re.sub(r'[\s\-–—]+', '', s)
RECURSIVE StripHyphens(_)
StripHyphens(s) ==
    IF s = <<>> THEN <<>>
    ELSE IF Head(s) = "-" THEN StripHyphens(Tail(s))
         ELSE <<Head(s)>> \o StripHyphens(Tail(s))

\* x in s
Contains(x, s) ==
    \E i \in 0..(Len(s) - Len(x)) : SubSeq(s, i + 1, i + Len(x)) = x

\* re.escape(entity) matches at the start of s, flags = re.IGNORECASE.
MatchesAtStart(entity, s) ==
    /\ Len(entity) <= Len(s)
    /\ Lower(SubSeq(s, 1, Len(entity))) = Lower(entity)

\* re.sub(re.escape(entity), expected, s, flags = re.IGNORECASE): every
\* leftmost non-overlapping match is replaced.
RECURSIVE ReSub(_, _, _)
ReSub(entity, expected, s) ==
    IF s = <<>> THEN <<>>
    ELSE IF MatchesAtStart(entity, s)
         THEN expected
                \o ReSub(entity, expected,
                         SubSeq(s, Len(entity) + 1, Len(s)))
         ELSE <<Head(s)>> \o ReSub(entity, expected, Tail(s))

\* entity_mappings: the entries with an empty term or an empty translation
\* are left out.
EntityMappings(terminology_db) ==
    SelectSeq(terminology_db,
              LAMBDA e : e.term # <<>> /\ e.translation # <<>>)

\* "normalized_translation in normalized_text
\*  or expected_translation.lower() in corrected_text.lower()"
HasTranslation(expected, text) ==
    \/ Contains(StripHyphens(Lower(expected)), StripHyphens(Lower(text)))
    \/ Contains(Lower(expected), Lower(text))

\* The loop over entity_mappings for one line, from entry i on:
\* corrected_text is the line so far, reported tells whether an entry of
\* the line was appended to inconsistency_details.
RECURSIVE CheckEntities(_, _, _, _, _)
CheckEntities(mappings, i, source_text, corrected_text, reported) ==
    IF i > Len(mappings)
    THEN [text |-> corrected_text, reported |-> reported]
    ELSE LET entity == mappings[i].term
             expected == mappings[i].translation
             replaced == ReSub(entity, expected, corrected_text)
         IN  IF ~Contains(Lower(entity), Lower(source_text))
             THEN CheckEntities(mappings, i + 1, source_text,
                                corrected_text, reported)
             ELSE IF HasTranslation(expected, corrected_text)
             THEN CheckEntities(mappings, i + 1, source_text,
                                corrected_text, reported)
             ELSE IF expected # entity /\ replaced # corrected_text
             THEN CheckEntities(mappings, i + 1, source_text, replaced,
                                reported)
             ELSE CheckEntities(mappings, i + 1, source_text,
                                corrected_text, TRUE)

\* One line of _check_entity_consistency: without mappings, or for an empty
\* translation, the line is returned as it is.
CheckEntityConsistency(terminology_db, source_text, translated_text) ==
    IF EntityMappings(terminology_db) = <<>> \/ translated_text = <<>>
    THEN [text |-> translated_text, reported |-> FALSE]
    ELSE CheckEntities(EntityMappings(terminology_db), 1, source_text,
                       translated_text, FALSE)

EntityInit ==
    /\ ec_in \in [terminology_db : TermTables, source_text : Strings,
                  translated_text : Strings]
    /\ ec_pc = "ready"
    /\ ec_out = [text |-> <<>>, reported |-> FALSE]

EntityIdle ==
    /\ ec_in = [terminology_db |-> <<>>, source_text |-> <<>>,
                translated_text |-> <<>>]
    /\ ec_pc = "idle"
    /\ ec_out = [text |-> <<>>, reported |-> FALSE]

CheckLine ==
    /\ ec_pc = "ready"
    /\ ec_out' = CheckEntityConsistency(ec_in.terminology_db,
                                        ec_in.source_text,
                                        ec_in.translated_text)
    /\ ec_pc' = "done"
    /\ UNCHANGED <<ec_in, chunkerVars, storeVars, flowVars, workerVars>>

-----------------------------------------------------------------------------
(* LLM requests: _wait_for_limiter and _llm_request_with_tracking          *)

NThreads == 2

MaxPolls == 2

Threads == 1..NThreads

\* The agents that send LLM requests: TranslationRefinementAgent and
\* TerminologyEntityAgent.
AgentKinds == {"translation", "terminology"}

\* TranslationRefinementAgent creates a RequestLimiter and waits on it
\* before every request; TerminologyEntityAgent has none and calls
\* _llm_request_with_tracking directly.
HasLimiter(agent) == agent = "translation"

IdleThread ==
    [pc |-> "idle", agent |-> "translation", polls |-> 0,
     begun_stopped |-> FALSE, slept_stopped |-> 0, outcome |-> "none",
     granted_stopped |-> FALSE, result |-> "none", ahead |-> {}]

\* The threads inside _wait_for_limiter.
Waiting(threads) == {u \in Threads : threads[u].pc \in {"wait", "check"}}

\* Thread t has left _wait_for_limiter: it is ahead of nobody any more.
Leave(threads, t) ==
    [u \in Threads |-> [threads[u] EXCEPT !.ahead = @ \ {t}]]

\* "if Base.work_status == Base.STATUS.STOPING: return False"
StopRequestedNever(status) == FALSE

StopRequested(status) == status = "STOPING"

Max0(n) == IF n > 0 THEN n ELSE 0

\* The finally block of _llm_request_with_tracking, run when sent_request
\* returned and when it raised.
AfterCallOnReturnOnly(n, raised) == IF raised THEN n ELSE Max0(n - 1)

AfterCall(n, raised) == Max0(n - 1)

RequestInit ==
    /\ th = [t \in Threads |-> IdleThread]
    /\ active_llm_calls = 0

RequestIdle == RequestInit

\* A thread of an agent starts a request: the translation agent enters
\* _wait_for_limiter, the terminology agent goes straight to the tracked
\* call.  begun_stopped records whether the stop flag was already raised.
BeginRequest(t) ==
    /\ th[t].pc = "idle"
    /\ \E agent \in AgentKinds :
          th' = [th EXCEPT ![t] =
                    [IdleThread EXCEPT
                        !.pc = IF HasLimiter(agent) THEN "wait" ELSE "track",
                        !.agent = agent,
                        !.begun_stopped = work_status = "STOPING",
                        !.ahead = IF HasLimiter(agent) THEN Waiting(th)
                                  ELSE {}]]
    /\ UNCHANGED <<active_llm_calls, tc, stats_line, work_status, restVars>>

\* The top of the polling loop: the stop test, then the timeout test (the
\* timeout can only have elapsed after a sleep).
TestFlag(t) ==
    /\ th[t].pc = "wait"
    /\ IF StopRequested(work_status)
       THEN th' = Leave([th EXCEPT ![t].pc = "idle",
                                   ![t].outcome = "cancelled"], t)
       ELSE \E timed_out \in BOOLEAN :
               /\ timed_out => th[t].polls > 0
               /\ th' = IF timed_out
                        THEN Leave([th EXCEPT ![t].pc = "idle",
                                              ![t].outcome = "timeout"], t)
                        ELSE [th EXCEPT ![t].pc = "check",
                                        ![t].outcome = "none"]
    /\ UNCHANGED <<active_llm_calls, tc, stats_line, work_status, restVars>>

\* request_limiter.check_limiter: True returns permitted; otherwise the
\* thread sleeps one second and polls again.
CheckLimiter(t) ==
    /\ th[t].pc = "check"
    /\ \E free \in BOOLEAN :
          IF free
          THEN th' = Leave([th EXCEPT
                         ![t].pc = "track",
                         ![t].outcome = "permitted",
                         ![t].granted_stopped = work_status = "STOPING"], t)
          ELSE /\ th[t].polls < MaxPolls
               /\ th' = [th EXCEPT
                            ![t].pc = "wait",
                            ![t].polls = @ + 1,
                            ![t].slept_stopped =
                                IF work_status = "STOPING" THEN @ + 1 ELSE @]
    /\ UNCHANGED <<active_llm_calls, tc, stats_line, work_status, restVars>>

\* _llm_request_with_tracking before the call: the increment under
\* atomic_scope, then sent_request is entered.
TrackBegin(t) ==
    /\ th[t].pc = "track"
    /\ active_llm_calls' = active_llm_calls + 1
    /\ th' = [th EXCEPT ![t].pc = "sending"]
    /\ UNCHANGED <<tc, stats_line, work_status, restVars>>

\* sent_request returns a reply or raises.
CallEnds(t) ==
    /\ th[t].pc = "sending"
    /\ \E raised \in BOOLEAN :
          th' = [th EXCEPT ![t].pc = "finally",
                           ![t].result = IF raised THEN "raised"
                                         ELSE "returned"]
    /\ UNCHANGED <<active_llm_calls, tc, stats_line, work_status, restVars>>

\* The finally block: the decrement under atomic_scope.
TrackEnd(t) ==
    /\ th[t].pc = "finally"
    /\ active_llm_calls' =
          AfterCall(active_llm_calls, th[t].result = "raised")
    /\ th' = [th EXCEPT ![t].pc = "idle"]
    /\ UNCHANGED <<tc, stats_line, work_status, restVars>>

-----------------------------------------------------------------------------
(* _translate_chunk over a chunk of several lines                          *)

\* Source lengths on either side of the truncation threshold.
SourceLens == {50, 200}

\* "len(src) > 100"
TRUNC_MIN_SOURCE == 100

\* The texts a request can produce.  A line missing from the batch reply is
\* MISSING; BATCH_* come from the batch request, SINGLE_* from a
\* single-line request, REFINED from the refinement of step 2.
MISSING == "missing"

EMPTY == ""

BATCH_SHORT == "batch_short"

BATCH_FULL == "batch_full"

SINGLE_SHORT == "single_short"

SINGLE_FULL == "single_full"

REFINED == "refined"

BatchReplyTexts == {MISSING, EMPTY, BATCH_SHORT, BATCH_FULL}

SingleReplyTexts == {NULL, SINGLE_SHORT, SINGLE_FULL}

\* len(text); the placeholder is "[翻译失败]" followed by the source.
TextLen(text, src_len) ==
    CASE text = EMPTY -> 0
      [] text \in {BATCH_SHORT, SINGLE_SHORT} -> 10
      [] text = PLACEHOLDER -> 6 + src_len
      [] OTHER -> 100

\* "len(src) > 100 and len(trans) < len(src) * 0.3"
IsTruncated(src_len, text) ==
    /\ src_len > TRUNC_MIN_SOURCE
    /\ TextLen(text, src_len) * 10 < src_len * 3

\* The problem lines of a batch result: empty, or truncated.
ProblemIndices(src, texts) ==
    {i \in 1..Len(src) : texts[i] = EMPTY \/ IsTruncated(src[i], texts[i])}

\* _strategy_based_batch_translation on a parsed reply: response_dict holds
\* the keys the reply carried; the keys 0..N-1 are taken, a missing key
\* gives "", surplus keys are ignored; None (<<>>) without any key or
\* without any non-empty text.
BatchResult(reply, n) ==
    LET taken == [i \in 1..n |-> IF reply[i] = MISSING THEN EMPTY
                                 ELSE reply[i]]
    IN  IF \A i \in DOMAIN reply : reply[i] = MISSING THEN <<>>
        ELSE IF \A i \in 1..n : taken[i] = EMPTY THEN <<>>
        ELSE taken

\* The number of lines the reply carried.
ReplyCount(reply) == Cardinality({i \in DOMAIN reply : reply[i] # MISSING})

\* _wait_for_limiter as its caller sees it: refused while the stop flag is
\* raised, and refused on a timeout.
LimiterOutcomes == IF StopRequested(work_status) THEN {FALSE} ELSE BOOLEAN

IdleChunkCall ==
    [pc |-> "idle", src |-> <<>>, texts |-> <<>>, i |-> 0,
     problem |-> {}, reply_count |-> -1, single_calls |-> 0,
     stale |-> {}, step2 |-> "none"]

NextProblem(problem, i) ==
    IF {j \in problem : j > i} = {} THEN 0
    ELSE CHOOSE j \in problem : j > i /\ \A l \in problem : l > i => j <= l

ChunkCallInit ==
    /\ \E n \in Atoms : \E src \in [1..n -> SourceLens] :
          /\ tc = [IdleChunkCall EXCEPT !.pc = "batch", !.src = src]
          /\ project = [lines |-> n, has_atom_map |-> TRUE]
    /\ stats_line = 0
    /\ work_status = "TASKING"

ChunkCallIdle ==
    /\ tc = IdleChunkCall
    /\ stats_line = 0

\* The batch request of step 1 waits for the limiter; a refused request
\* makes _strategy_based_batch_translation return None, and the chunk falls
\* back to line-by-line translation.
BatchAcquire ==
    /\ tc.pc = "batch"
    /\ \E permitted \in LimiterOutcomes :
          tc' = IF permitted THEN [tc EXCEPT !.pc = "batch_call"]
                ELSE [tc EXCEPT !.pc = "fallback", !.i = 1]
    /\ UNCHANGED <<stats_line, cache_items, storeVars, callerVars>>

\* The batch request returns: a failure (skip, exception), or a reply whose
\* lines are extracted by key.  Then the line-count test, the padding and
\* the search for problem lines of _translate_chunk.
BatchReply ==
    /\ tc.pc = "batch_call"
    /\ LET n == Len(tc.src)
       IN  \E failed \in BOOLEAN, reply \in [1..(n + 1) -> BatchReplyTexts] :
              LET result == IF failed THEN <<>> ELSE BatchResult(reply, n)
                  problem == ProblemIndices(tc.src, result)
              IN  IF result = <<>> \/ Len(result) # n
                  THEN tc' = [tc EXCEPT
                                 !.pc = "fallback", !.i = 1,
                                 !.reply_count = IF failed THEN -1
                                                 ELSE ReplyCount(reply)]
                  ELSE tc' = [tc EXCEPT
                                 !.pc = IF problem = {} THEN "step2"
                                        ELSE "retry",
                                 !.i = NextProblem(problem, 0),
                                 !.texts = result,
                                 !.problem = problem,
                                 !.reply_count = ReplyCount(reply),
                                 !.stale = IF StopRequested(work_status)
                                           THEN 1..n ELSE {}]
    /\ UNCHANGED <<stats_line, cache_items, storeVars, callerVars>>

\* The record of the chunk call once _translate_single_line has answered
\* for line tc.i: in the fallback loop the text is appended, in the retry
\* loop it replaces the problem line; None leaves the placeholder.
AfterSingle(r, in_flight_stop) ==
    LET n == Len(tc.src)
        text == IF r = NULL THEN PLACEHOLDER ELSE r
        stale == IF in_flight_stop /\ r # NULL THEN tc.stale \cup {tc.i}
                 ELSE tc.stale \ {tc.i}
    IN  IF tc.pc \in {"fallback", "fallback_call"}
        THEN [tc EXCEPT !.pc = IF tc.i = n THEN "step2" ELSE "fallback",
                        !.i = IF tc.i = n THEN 0 ELSE tc.i + 1,
                        !.texts = IF tc.i = 1 THEN <<text>>
                                  ELSE Append(tc.texts, text),
                        !.stale = stale]
        ELSE [tc EXCEPT !.pc = IF NextProblem(tc.problem, tc.i) = 0
                               THEN "step2" ELSE "retry",
                        !.i = NextProblem(tc.problem, tc.i),
                        !.texts = [tc.texts EXCEPT ![tc.i] = text],
                        !.stale = stale]

\* _translate_single_line is called for line tc.i and waits for the
\* limiter; a refused request returns None.
SingleAcquire ==
    /\ tc.pc \in {"fallback", "retry"}
    /\ \E permitted \in LimiterOutcomes :
          tc' = IF permitted
                THEN [tc EXCEPT
                         !.pc = IF tc.pc = "fallback" THEN "fallback_call"
                                ELSE "retry_call",
                         !.single_calls = @ + 1]
                ELSE [AfterSingle(NULL, FALSE) EXCEPT
                         !.single_calls = tc.single_calls + 1]
    /\ UNCHANGED <<stats_line, cache_items, storeVars, callerVars>>

\* The single-line request returns a translation or nothing.
SingleReply ==
    /\ tc.pc \in {"fallback_call", "retry_call"}
    /\ \E r \in SingleReplyTexts :
          tc' = AfterSingle(r, StopRequested(work_status))
    /\ UNCHANGED <<stats_line, cache_items, storeVars, callerVars>>

\* Step 2: _batch_tear_verification_with_scores starts with the
\* back-translation request; refused, it returns the texts unverified.
Step2Acquire ==
    /\ tc.pc = "step2"
    /\ \E permitted \in LimiterOutcomes :
          tc' = IF permitted THEN [tc EXCEPT !.pc = "step2_call"]
                ELSE [tc EXCEPT !.pc = "commit", !.step2 = "failed"]
    /\ UNCHANGED <<stats_line, cache_items, storeVars, callerVars>>

\* The verification answers: back-translation and scores, with some lines
\* refined, or a failure, after which _translate_chunk keeps the texts of
\* step 1 ("回译验证失败，使用原译文").
Step2Reply ==
    /\ tc.pc = "step2_call"
    /\ \E ok \in BOOLEAN, refined \in SUBSET (1..Len(tc.src)) :
          /\ ~ok => refined = {}
          /\ tc' = [tc EXCEPT
                       !.pc = "commit",
                       !.step2 = IF ok THEN "ok" ELSE "failed",
                       !.texts = [i \in 1..Len(tc.src) |->
                                     IF i \in refined THEN REFINED
                                     ELSE tc.texts[i]],
                       !.stale = IF StopRequested(work_status)
                                 THEN @ \cup refined ELSE @ \ refined]
    /\ UNCHANGED <<stats_line, cache_items, storeVars, callerVars>>

\* The rest of _translate_chunk: for every line the evaluate trace, then
\* _update_cache_item, the draft trace and update_atom_translation with
\* status_code 1; then _update_line_stats(chunk_size) and the return.
CommitChunk ==
    /\ tc.pc = "commit"
    /\ LET n == Len(tc.src)
       IN  /\ cache_items' = [a \in Atoms |->
                                 IF a <= n /\ tc.texts[a] # EMPTY
                                 THEN tc.texts[a] ELSE cache_items[a]]
           /\ st_traces' =
                 [a \in Atoms |->
                     IF a <= n /\ GetAtomId(a) # 0
                     THEN IF tc.texts[a] # EMPTY
                          THEN AddTrace(AddTrace(st_traces, a, "evaluate",
                                                 "Quality Score"),
                                        a, "draft", tc.texts[a])[a]
                          ELSE AddTrace(st_traces, a, "evaluate",
                                        "Quality Score")[a]
                     ELSE st_traces[a]]
           /\ st_atoms' =
                 [a \in Atoms |->
                     IF a <= n /\ GetAtomId(a) # 0 /\ tc.texts[a] # EMPTY
                     THEN UpdateAtomTranslation(st_atoms, a, tc.texts[a],
                                                1)[a]
                     ELSE st_atoms[a]]
           /\ stats_line' = stats_line + n
    /\ tc' = [tc EXCEPT !.pc = "returned"]
    /\ UNCHANGED <<st_tx, callerVars>>

-----------------------------------------------------------------------------
(* Review selection: the batch _unified_human_review offers to the callback *)

MaxLines == 4

\* Quality scores on the 0-10 scale, and the review thresholds on that scale
\* (0.7 and 0.8 of the configuration).
Scores == {6, 8, 9}

Thresholds == {7, 8}

\* all_scores_with_index.sort(key=score): the global indices by ascending
\* score; the sort is stable, so equal scores keep their order.
RECURSIVE SortByScore(_, _)
SortByScore(scores, todo) ==
    IF todo = {} THEN <<>>
    ELSE LET first == CHOOSE i \in todo :
                          \A j \in todo :
                              \/ scores[i] < scores[j]
                              \/ scores[i] = scores[j] /\ i <= j
         IN  <<first>> \o SortByScore(scores, todo \ {first})

\* lowest_3 = all_scores_with_index[:min(3, len(all_scores_with_index))]
Lowest3(scores) ==
    LET sorted == SortByScore(scores, DOMAIN scores)
        n == IF Len(sorted) < REVIEW_COUNT THEN Len(sorted) ELSE REVIEW_COUNT
    IN  SubSeq(sorted, 1, n)

ReviewSelectInit ==
    \E n \in 0..MaxLines :
        \E scores \in [1..n -> Scores] :
            \E t \in Thresholds, en \in BOOLEAN, cb \in BOOLEAN :
                rv = [scores |-> scores, review_threshold |-> t,
                      enable_human_review |-> en, has_callback |-> cb,
                      pc |-> "ready", review_items |-> <<>>]

ReviewSelectIdle ==
    rv = [scores |-> <<>>, review_threshold |-> 8,
          enable_human_review |-> FALSE, has_callback |-> FALSE,
          pc |-> "ready", review_items |-> <<>>]

\* _unified_human_review up to the call of the callback: review_items holds
\* the global indices of the lines offered.
SelectReviewItems ==
    /\ rv.pc = "ready"
    /\ IF ~rv.enable_human_review \/ ~rv.has_callback
       THEN rv' = [rv EXCEPT !.pc = "skipped"]
       ELSE rv' = [rv EXCEPT !.pc = "called",
                             !.review_items = Lowest3(rv.scores)]
    /\ UNCHANGED <<flowVars, chunkerVars, storeVars, entityVars, requestVars,
                   chunkCallVars, sf, lateVars>>

-----------------------------------------------------------------------------
(* A run whose store calls can fail: which failures the callers catch      *)

\* How one DatabaseManager call ends: normally; with its error caught inside
\* the call (rollback, message, return); or raising to the caller, as
\* get_pg_connection does when the database cannot be reached.
StoreOutcomes == {"ok", "failed", "raised"}

StoreFailIdle ==
    sf = [pc |-> "idle", lines |-> 0, has_atom_map |-> FALSE, chunk |-> 0,
          all_chunks_data |-> <<>>, failed_call |-> "none",
          did_translate |-> FALSE, result |-> "none"]

StoreFailInit ==
    \E n \in Atoms, m \in BOOLEAN :
        sf = [pc |-> "db_init", lines |-> n, has_atom_map |-> m,
              chunk |-> 1, all_chunks_data |-> <<>>, failed_call |-> "none",
              did_translate |-> FALSE, result |-> "none"]

\* The store call that failed first in the run.
FirstFailed(state, call) ==
    IF state.failed_call = "none" THEN call ELSE state.failed_call

\* The chunk after the current one, or the review when it was the last.
NextChunk(state) ==
    IF state.chunk < state.lines
    THEN [state EXCEPT !.pc = "evaluate", !.chunk = @ + 1]
    ELSE [state EXCEPT !.pc = "review"]

\* execute raises: the translate_and_refine tool catches the exception and
\* returns an ErrorArtifact, leaving did_translate unset.
ExecuteRaises(state) == [state EXCEPT !.pc = "check"]

\* multi_agent_translation_start, DB phase 1: the project and document
\* calls sit in one try block whose except clause logs and goes on.
DbPhaseOne ==
    /\ sf.pc = "db_init"
    /\ \E o \in StoreOutcomes :
          sf' = [sf EXCEPT !.pc = "evaluate",
                           !.failed_call =
                              IF o = "ok" THEN @
                              ELSE FirstFailed(sf, "create_project")]
    /\ UNCHANGED <<flowVars, chunkerVars, storeVars, entityVars, requestVars,
                   chunkCallVars, rv, lateVars>>

\* _translate_chunk: the evaluate trace is written inside its own try
\* block, whose except clause logs and goes on.
EvaluateTrace ==
    /\ sf.pc = "evaluate"
    /\ IF sf.has_atom_map
       THEN \E o \in StoreOutcomes :
               sf' = [sf EXCEPT !.pc = "draft",
                                !.failed_call =
                              IF o = "ok" THEN @
                              ELSE FirstFailed(sf, "evaluate")]
       ELSE sf' = [sf EXCEPT !.pc = "draft"]
    /\ UNCHANGED <<flowVars, chunkerVars, storeVars, entityVars, requestVars,
                   chunkCallVars, rv, lateVars>>

\* _translate_chunk: the draft add_trace and update_atom_translation are
\* covered only by the try block of the whole chunk: a call that raises
\* ends the chunk with success = False, and execute drops its result.
DraftTrace ==
    /\ sf.pc = "draft"
    /\ IF sf.has_atom_map
       THEN \E o \in StoreOutcomes :
               sf' = IF o = "raised"
                     THEN [NextChunk(sf) EXCEPT !.failed_call = FirstFailed(sf, "draft")]
                     ELSE [sf EXCEPT !.pc = "draft_update",
                                     !.failed_call =
                              IF o = "ok" THEN @
                              ELSE FirstFailed(sf, "draft")]
       ELSE sf' = [NextChunk(sf) EXCEPT
                      !.all_chunks_data = Append(@, sf.chunk)]
    /\ UNCHANGED <<flowVars, chunkerVars, storeVars, entityVars, requestVars,
                   chunkCallVars, rv, lateVars>>

DraftUpdate ==
    /\ sf.pc = "draft_update"
    /\ \E o \in StoreOutcomes :
          sf' = IF o = "raised"
                THEN [NextChunk(sf) EXCEPT !.failed_call = FirstFailed(sf, "update")]
                ELSE [NextChunk(sf) EXCEPT
                         !.failed_call =
                              IF o = "ok" THEN @
                              ELSE FirstFailed(sf, "update"),
                         !.all_chunks_data = Append(@, sf.chunk)]
    /\ UNCHANGED <<flowVars, chunkerVars, storeVars, entityVars, requestVars,
                   chunkCallVars, rv, lateVars>>

\* _unified_human_review: a custom or retranslate decision writes its trace
\* with no try block around the call.
ReviewTrace ==
    /\ sf.pc = "review"
    /\ \E writes \in BOOLEAN :
          IF writes /\ sf.has_atom_map /\ sf.all_chunks_data # <<>>
          THEN \E o \in StoreOutcomes :
                  sf' = IF o = "raised"
                        THEN [ExecuteRaises(sf) EXCEPT !.failed_call = FirstFailed(sf, "human_edit")]
                        ELSE [sf EXCEPT !.pc = "entity",
                                        !.failed_call =
                              IF o = "ok" THEN @
                              ELSE FirstFailed(sf, "human_edit")]
          ELSE sf' = [sf EXCEPT !.pc = "entity"]
    /\ UNCHANGED <<flowVars, chunkerVars, storeVars, entityVars, requestVars,
                   chunkCallVars, rv, lateVars>>

\* _unified_entity_check: the final trace of a rewritten line is written
\* with no try block around the call; then execute returns success = True
\* and the tool stores did_translate.
EntityTrace ==
    /\ sf.pc = "entity"
    /\ \E rewritten \in BOOLEAN :
          IF rewritten /\ sf.has_atom_map /\ sf.all_chunks_data # <<>>
          THEN \E o \in StoreOutcomes :
                  sf' = IF o = "raised"
                        THEN [ExecuteRaises(sf) EXCEPT !.failed_call = FirstFailed(sf, "final")]
                        ELSE [sf EXCEPT !.pc = "check",
                                        !.did_translate = TRUE,
                                        !.failed_call =
                              IF o = "ok" THEN @
                              ELSE FirstFailed(sf, "final")]
          ELSE sf' = [sf EXCEPT !.pc = "check", !.did_translate = TRUE]
    /\ UNCHANGED <<flowVars, chunkerVars, storeVars, entityVars, requestVars,
                   chunkCallVars, rv, lateVars>>

\* execute_workflow's check, then multi_agent_translation_start: the output
\* files are written on success, the RuntimeError is logged otherwise.
StoreFailCheck ==
    /\ sf.pc = "check"
    /\ sf' = [sf EXCEPT
                !.pc = "ended",
                !.result =
                    IF WorkflowSucceeded(
                           [did_translate |-> sf.did_translate,
                            translation_results |->
                                IF sf.did_translate
                                THEN Len(sf.all_chunks_data) ELSE 0])
                    THEN "saved" ELSE "raised"]
    /\ UNCHANGED <<flowVars, chunkerVars, storeVars, entityVars, requestVars,
                   chunkCallVars, rv, lateVars>>

-----------------------------------------------------------------------------
(* Documents and atoms: DatabaseManager.create_document and                *)
(* create_atoms_batch on source_docs and processing_atoms                  *)

MaxDocs == 2

MaxBatch == 2

MaxAtomRows == 4

NBatchClients == 2

BatchClients == 1..NBatchClients

WorkIds == {1}

FilePaths == {"a.txt", "b.txt"}

\* The positions of a batch of n atoms: atom.get('position', idx), either
\* left out by the caller (start = 0) or continuing after an earlier batch.
BatchOf(start, n) == [i \in 1..n |-> start + i - 1]

Batches == {BatchOf(start, n) : start \in {0, MaxBatch}, n \in 0..MaxBatch}

IdleBatch == [pc |-> "idle", doc_id |-> 0, ids |-> <<>>, result |-> <<>>]

DocStoreIdle ==
    ds = [docs |-> <<>>, calls |-> <<>>, atoms |-> <<>>,
          bt |-> [c \in BatchClients |-> IdleBatch]]

DocStoreInit == DocStoreIdle

\* create_document: a plain INSERT ... RETURNING doc_id; doc_id is SERIAL
\* and source_docs has no unique constraint on (work_id, file_path).  An
\* exception rolls the insert back and returns None (0 here).
InsertDoc(docs, work_id, file_path) ==
    Append(docs, [work_id |-> work_id, file_path |-> file_path])

CreateDocument ==
    /\ Len(ds.calls) < MaxDocs
    /\ \E work_id \in WorkIds, file_path \in FilePaths, ok \in BOOLEAN :
          LET docs == IF ok THEN InsertDoc(ds.docs, work_id, file_path)
                      ELSE ds.docs
          IN ds' = [ds EXCEPT
                      !.docs = docs,
                      !.calls = Append(@, [work_id |-> work_id,
                                           file_path |-> file_path,
                                           doc_id |-> IF ok THEN Len(docs)
                                                      ELSE 0])]
    /\ UNCHANGED <<flowVars, chunkerVars, storeVars, entityVars, requestVars,
                   chunkCallVars, rv, sf, pool, tl, ex,
                   sg,
                   lc, cr>>

\* The rows of a document that a transaction of client c sees under READ
\* COMMITTED: the committed ones (tx = 0) and its own.
VisibleAtoms(atoms, doc_id, c) ==
    {a \in 1..Len(atoms) :
        atoms[a].doc_id = doc_id /\ atoms[a].tx \in {0, c}}

\* SELECT atom_id ... ORDER BY position: every order of the visible rows
\* with non-decreasing positions; rows of equal position come in any order.
OrderedByPosition(atoms, ids) ==
    {o \in [1..Cardinality(ids) -> ids] :
        /\ \A i, j \in DOMAIN o : i # j => o[i] # o[j]
        /\ \A i, j \in DOMAIN o :
              i < j => atoms[o[i]].position <= atoms[o[j]].position}

\* atom_ids[-len(atoms):]
LastN(o, n) == SubSeq(o, Len(o) - n + 1, Len(o))

\* create_atoms_batch up to execute_values: an empty batch returns [] at
\* once; the INSERT gives the rows the next atom_ids; an exception rolls
\* back and returns [].
BatchInsert(c) ==
    /\ ds.bt[c].pc = "idle"
    /\ ds.docs # <<>>
    /\ \E doc_id \in 1..Len(ds.docs), batch \in Batches, ok \in BOOLEAN :
          /\ Len(ds.atoms) + Len(batch) <= MaxAtomRows
          /\ IF batch = <<>> \/ ~ok
             THEN ds' = [ds EXCEPT !.bt[c] = [IdleBatch EXCEPT
                                                !.pc = "done",
                                                !.doc_id = doc_id]]
             ELSE ds' = [ds EXCEPT
                    !.atoms = @ \o [i \in 1..Len(batch) |->
                                       [doc_id |-> doc_id,
                                        position |-> batch[i],
                                        tx |-> c]],
                    !.bt[c] = [pc |-> "inserted", doc_id |-> doc_id,
                               ids |-> [i \in 1..Len(batch) |->
                                           Len(ds.atoms) + i],
                               result |-> <<>>]]
    /\ UNCHANGED <<flowVars, chunkerVars, storeVars, entityVars, requestVars,
                   chunkCallVars, rv, sf, pool, tl, ex,
                   sg,
                   lc, cr>>

\* create_atoms_batch from the SELECT on: the ids of the document in
\* position order, the commit, and the last len(atoms) ids returned.
BatchSelect(c) ==
    /\ ds.bt[c].pc = "inserted"
    /\ \E o \in OrderedByPosition(
                   ds.atoms, VisibleAtoms(ds.atoms, ds.bt[c].doc_id, c)) :
          ds' = [ds EXCEPT
                   !.atoms = [a \in DOMAIN @ |->
                                 IF @[a].tx = c THEN [@[a] EXCEPT !.tx = 0]
                                 ELSE @[a]],
                   !.bt[c] = [ds.bt[c] EXCEPT
                                !.pc = "done",
                                !.result = LastN(o, Len(ds.bt[c].ids))]]
    /\ UNCHANGED <<flowVars, chunkerVars, storeVars, entityVars, requestVars,
                   chunkCallVars, rv, sf, pool, tl, ex,
                   sg,
                   lc, cr>>

-----------------------------------------------------------------------------
(* The translation thread pool: PlanningAgent._create_execution_plan and   *)
(* the pool that TranslationRefinementAgent.execute creates                *)

MaxPoolChunks == 2

MaxChunkLines == 3

\* Average source lengths on both sides of the planner's two thresholds.
AvgLengths == {99, 100, 499, 500}

\* config.actual_thread_counts, used when no plan reached the agent.
ConfigThreadCounts == {2}

RECURSIVE SumSeq(_)
SumSeq(s) == IF s = <<>> THEN 0 ELSE Head(s) + SumSeq(Tail(s))

Min(a, b) == IF a < b THEN a ELSE b

\* _analyze_task_complexity
Complexity(total_units, avg_length) ==
    IF total_units < 50 /\ avg_length < 100 THEN "simple"
    ELSE IF total_units < 300 /\ avg_length < 500 THEN "medium"
    ELSE "complex"

\* _create_execution_plan: max_workers
PlanMaxWorkers(complexity) ==
    CASE complexity = "simple" -> 5
      [] complexity = "medium" -> 10
      [] OTHER -> 15

PoolIdle ==
    pool = [pc |-> "idle", chunks |-> <<>>, avg_length |-> 0,
            plan_workers |-> 0, max_workers |-> 0, submitted |-> 0,
            threads |-> 0]

\* The chunks of the run, each with its number of lines.
PoolInit ==
    \E chunks \in SeqsUpTo(1..MaxChunkLines, MaxPoolChunks),
       avg_length \in AvgLengths :
        pool = [pc |-> "plan", chunks |-> chunks, avg_length |-> avg_length,
                plan_workers |-> 0, max_workers |-> 0, submitted |-> 0,
                threads |-> 0]

\* PlanningAgent.execute: the plan, or no plan when planning failed and the
\* workflow went on without planning_result.
CreateExecutionPlan ==
    /\ pool.pc = "plan"
    /\ \E success \in BOOLEAN :
          pool' = [pool EXCEPT
                     !.pc = "size",
                     !.plan_workers =
                        IF success
                        THEN PlanMaxWorkers(
                                 Complexity(SumSeq(pool.chunks),
                                            pool.avg_length))
                        ELSE 0]
    /\ UNCHANGED <<flowVars, chunkerVars, storeVars, entityVars, requestVars,
                   chunkCallVars, rv, sf, ds, tl, ex,
                   sg,
                   lc, cr>>

\* execute, lines 234-243: the planner's max_workers, or the configured
\* thread count, capped by total_units, the number of text units.
PoolSize(plan_workers, configured, chunks) ==
    Min(IF plan_workers # 0 THEN plan_workers ELSE configured,
        SumSeq(chunks))

\* ThreadPoolExecutor(max_workers): a pool of size zero raises ValueError.
SizePool ==
    /\ pool.pc = "size"
    /\ \E configured \in ConfigThreadCounts :
          LET max_workers ==
                  PoolSize(pool.plan_workers, configured, pool.chunks)
          IN pool' = [pool EXCEPT
                        !.pc = IF max_workers = 0 THEN "raised"
                               ELSE "submit",
                        !.max_workers = max_workers]
    /\ UNCHANGED <<flowVars, chunkerVars, storeVars, entityVars, requestVars,
                   chunkCallVars, rv, sf, ds, tl, ex,
                   sg,
                   lc, cr>>

\* executor.submit for the next chunk: the pool starts one more thread
\* while it has fewer than max_workers, unless an idle thread takes the task.
Submit ==
    /\ pool.pc = "submit"
    /\ pool.submitted < Len(pool.chunks)
    /\ \E idle_thread \in BOOLEAN :
          pool' = [pool EXCEPT
                     !.submitted = @ + 1,
                     !.threads =
                        IF (idle_thread /\ @ > 0) \/ @ >= pool.max_workers
                        THEN @ ELSE @ + 1]
    /\ UNCHANGED <<flowVars, chunkerVars, storeVars, entityVars, requestVars,
                   chunkCallVars, rv, sf, ds, tl, ex,
                   sg,
                   lc, cr>>

\* The with block ends when every submitted chunk has returned.
PoolShutdown ==
    /\ pool.pc = "submit"
    /\ pool.submitted = Len(pool.chunks)
    /\ pool' = [pool EXCEPT !.pc = "done"]
    /\ UNCHANGED <<flowVars, chunkerVars, storeVars, entityVars, requestVars,
                   chunkCallVars, rv, sf, ds, tl, ex,
                   sg,
                   lc, cr>>

-----------------------------------------------------------------------------
(* Invocations of the translate_and_refine tool within one workflow run    *)

NInvocations == 3

Invocations == 1..NInvocations

\* How translation_agent.execute ends: a result with success True, a result
\* with success False, or an exception.
ExecuteOutcomes == {"success", "failure", "raised"}

ToolIdle ==
    tl = [did_translate |-> FALSE, executions |-> 0, running |-> 0,
          pc |-> [i \in Invocations |-> "none"]]

\* execute_workflow: did_translate = False before the workflow runs.
ToolInit ==
    tl = [did_translate |-> FALSE, executions |-> 0, running |-> 0,
          pc |-> [i \in Invocations |-> "idle"]]

\* The tool is invoked: 'if self.workflow_state.get("did_translate")'
\* returns the summary of the finished translation, otherwise the call
\* goes on to translation_agent.execute.
ToolInvoke(i) ==
    /\ tl.pc[i] = "idle"
    /\ tl' = [tl EXCEPT !.pc[i] = IF tl.did_translate THEN "returned"
                                  ELSE "call"]
    /\ UNCHANGED <<flowVars, chunkerVars, storeVars, entityVars, requestVars,
                   chunkCallVars, rv, sf, ds, pool,
                   ex, sg,
                   lc, cr>>

\* translation_agent.execute starts.
ToolExecuteStart(i) ==
    /\ tl.pc[i] = "call"
    /\ tl' = [tl EXCEPT !.pc[i] = "executing",
                        !.executions = @ + 1,
                        !.running = @ + 1]
    /\ UNCHANGED <<flowVars, chunkerVars, storeVars, entityVars, requestVars,
                   chunkCallVars, rv, sf, ds, pool,
                   ex, sg,
                   lc, cr>>

\* translation_agent.execute ends: a result sets did_translate to its
\* success; an exception is caught and returned as an ErrorArtifact.
DidTranslateAfter(did_translate, outcome) ==
    IF outcome = "raised" THEN did_translate ELSE outcome = "success"

ToolExecuteEnd(i) ==
    /\ tl.pc[i] = "executing"
    /\ \E outcome \in ExecuteOutcomes :
          tl' = [tl EXCEPT
                   !.pc[i] = "returned",
                   !.running = @ - 1,
                   !.did_translate = DidTranslateAfter(@, outcome)]
    /\ UNCHANGED <<flowVars, chunkerVars, storeVars, entityVars, requestVars,
                   chunkCallVars, rv, sf, ds, pool,
                   ex, sg,
                   lc, cr>>

-----------------------------------------------------------------------------
(* One call of MultiAgentTaskExecutor.multi_agent_translation_start, step  *)
(* by step, each step able to raise                                        *)

MaxStopClicks == 2

ExecutorIdle ==
    ex = [pc |-> "none", continue_status |-> FALSE, has_project |-> FALSE,
          stop_done |-> 0, completed |-> 0, stop_clicks |-> 0,
          raised_at |-> "none"]

\* task_start has started the thread of the call.
ExecutorInit ==
    \E continue_status \in BOOLEAN, has_project \in BOOLEAN :
        ex = [pc |-> "configure", continue_status |-> continue_status,
              has_project |-> has_project, stop_done |-> 0, completed |-> 0,
              stop_clicks |-> 0, raised_at |-> "none"]

\* An exception outside every try block ends the call (the thread) there.
Propagate(state, step) ==
    [state EXCEPT !.pc = "ended", !.raised_at = step]

\* The finally block: work_status = TASKSTOPPED and TASK_STOP_DONE.
StopDone(state) == [state EXCEPT !.pc = "ended", !.stop_done = @ + 1]

\* Lines 96-104: work_status = TASKING, config.initialize,
\* prepare_for_translation, WorkflowManager(config), DatabaseManager().
Configure ==
    /\ ex.pc = "configure"
    /\ work_status' = "TASKING"
    /\ \E raised \in BOOLEAN :
          ex' = IF raised THEN Propagate(ex, "configure")
                ELSE [ex EXCEPT !.pc = "load"]
    /\ UNCHANGED <<project, cache_items, driverVars, chunkerVars, storeVars,
                   entityVars, requestVars, chunkCallVars, rv, sf, ds, pool,
                   tl, sg,
                   lc, cr>>

\* Lines 107-113: without a cache project the call sets TASKSTOPPED, emits
\* TASK_STOP_DONE and returns.  Lines 115-129: the statistics of the run.
LoadProject ==
    /\ ex.pc = "load"
    /\ IF ~ex.has_project
       THEN /\ work_status' = "TASKSTOPPED"
            /\ ex' = StopDone(ex)
       ELSE /\ UNCHANGED work_status
            /\ ex' = [ex EXCEPT !.pc = IF ex.continue_status THEN "load_file"
                                       ELSE "count"]
    /\ UNCHANGED <<project, cache_items, driverVars, chunkerVars, storeVars,
                   entityVars, requestVars, chunkCallVars, rv, sf, ds, pool,
                   tl, sg,
                   lc, cr>>

\* Lines 131-137: a continued run reads its cache with load_config and
\* cache_manager.load_from_file.
LoadFromFile ==
    /\ ex.pc = "load_file"
    /\ \E raised \in BOOLEAN :
          ex' = IF raised THEN Propagate(ex, "load_file")
                ELSE [ex EXCEPT !.pc = "count"]
    /\ UNCHANGED <<work_status, project, cache_items, driverVars,
                   chunkerVars, storeVars, entityVars, requestVars,
                   chunkCallVars, rv, sf, ds, pool,
                   tl, sg,
                   lc, cr>>

\* Lines 143-152: total_line is counted over cache_project.items_iter().
CountLines ==
    /\ ex.pc = "count"
    /\ \E raised \in BOOLEAN :
          ex' = IF raised THEN Propagate(ex, "count")
                ELSE [ex EXCEPT !.pc = "db"]
    /\ UNCHANGED <<work_status, project, cache_items, driverVars,
                   chunkerVars, storeVars, entityVars, requestVars,
                   chunkCallVars, rv, sf, ds, pool,
                   tl, sg,
                   lc, cr>>

\* Lines 157-239: DB phase 1 inside its own try block, whose except clause
\* logs and goes on; the first TASK_UPDATE is emitted.
DbInit ==
    /\ ex.pc = "db"
    /\ ex' = [ex EXCEPT !.pc = "workflow"]
    /\ UNCHANGED <<work_status, project, cache_items, driverVars,
                   chunkerVars, storeVars, entityVars, requestVars,
                   chunkCallVars, rv, sf, ds, pool,
                   tl, sg,
                   lc, cr>>

\* Lines 340-346, inside the try block: execute_workflow returns success,
\* returns failure, or raises.
RunWorkflow ==
    /\ ex.pc = "workflow"
    /\ \E outcome \in {"success", "failure", "raised"} :
          ex' = [ex EXCEPT !.pc = IF outcome = "success" THEN "save"
                                  ELSE "finally",
                           !.raised_at = IF outcome = "raised"
                                         THEN "workflow" ELSE @]
    /\ UNCHANGED <<work_status, project, cache_items, driverVars,
                   chunkerVars, storeVars, entityVars, requestVars,
                   chunkCallVars, rv, sf, ds, pool,
                   tl, sg,
                   lc, cr>>

\* Lines 348-396, inside the try block: the cache and the output files are
\* written and TASK_COMPLETED is emitted, or a write raises.
SaveOutput ==
    /\ ex.pc = "save"
    /\ \E raised \in BOOLEAN :
          ex' = [ex EXCEPT !.pc = "finally",
                           !.completed = IF raised THEN @ ELSE @ + 1,
                           !.raised_at = IF raised THEN "save" ELSE @]
    /\ UNCHANGED <<work_status, project, cache_items, driverVars,
                   chunkerVars, storeVars, entityVars, requestVars,
                   chunkCallVars, rv, sf, ds, pool,
                   tl, sg,
                   lc, cr>>

\* Lines 402-408: except logs; finally sets TASKSTOPPED and emits
\* TASK_STOP_DONE.
Finally ==
    /\ ex.pc = "finally"
    /\ work_status' = "TASKSTOPPED"
    /\ ex' = StopDone(ex)
    /\ UNCHANGED <<project, cache_items, driverVars, chunkerVars, storeVars,
                   entityVars, requestVars, chunkCallVars, rv, sf, ds, pool,
                   tl, sg,
                   lc, cr>>

\* task_stop: the user cancels; the handler sets STOPING whatever the
\* status is.
CancelRun ==
    /\ ex.pc \notin {"none", "configure"}
    /\ ex.stop_clicks < MaxStopClicks
    /\ work_status' = "STOPING"
    /\ ex' = [ex EXCEPT !.stop_clicks = @ + 1]
    /\ UNCHANGED <<project, cache_items, driverVars, chunkerVars, storeVars,
                   entityVars, requestVars, chunkCallVars, rv, sf, ds, pool,
                   tl, sg,
                   lc, cr>>

-----------------------------------------------------------------------------
(* The stage tracker: stats_data.current_stage and the stage progress,     *)
(* written by the chunk workers and by execute during the translation      *)

NStageWorkers == 3

StageWorkers == 1..NStageWorkers

StageIndex(stage) ==
    CHOOSE i \in 1..Len(StageOrder) : StageOrder[i] = stage

\* _update_stage_progress: under atomic_scope, current_stage becomes the
\* given stage when it differs, and the progress pair is overwritten.
UpdateStageProgress(state, stage, current, total) ==
    [state EXCEPT !.current_stage = stage,
                  !.stage_progress_current = current,
                  !.stage_progress_total = total]

StageIdle ==
    sg = [pc |-> "none", current_stage |-> "planning",
          stage_progress_current |-> 0, stage_progress_total |-> 0,
          total_chunks |-> 0, completed_chunks |-> 0,
          wpc |-> [w \in StageWorkers |-> "none"]]

\* execute has prepared total_chunks chunks, called
\* _update_stage_progress("translating", 0, total_chunks) and submitted one
\* _translate_chunk per chunk.
StageInit ==
    \E total_chunks \in StageWorkers :
        sg = [pc |-> "collect", current_stage |-> "translating",
              stage_progress_current |-> 0,
              stage_progress_total |-> total_chunks,
              total_chunks |-> total_chunks, completed_chunks |-> 0,
              wpc |-> [w \in StageWorkers |->
                          IF w <= total_chunks THEN "translate" ELSE "none"]]

\* A worker ends step 1 of its chunk: by an exception (the chunk fails), or
\* by entering _batch_tear_verification_with_scores, which sets the stage
\* to backtranslation with progress 1 of 3 before the back-translation.
BackTranslate(w) ==
    /\ sg.wpc[w] = "translate"
    /\ \E raised \in BOOLEAN :
          sg' = IF raised THEN [sg EXCEPT !.wpc[w] = "failed"]
                ELSE [UpdateStageProgress(sg, "backtranslation", 1, 3)
                         EXCEPT !.wpc[w] = "back_translated"]
    /\ UNCHANGED <<flowVars, chunkerVars, storeVars, entityVars, requestVars,
                   chunkCallVars, rv, sf, ds, pool, tl, ex,
                   lc, cr>>

\* Without back-translations the verification returns at once; otherwise
\* the quality estimate follows with progress 2 of 3.
EstimateQuality(w) ==
    /\ sg.wpc[w] = "back_translated"
    /\ \E has_back_translations \in BOOLEAN :
          sg' = IF has_back_translations
                THEN [UpdateStageProgress(sg, "backtranslation", 2, 3)
                         EXCEPT !.wpc[w] = "estimated"]
                ELSE [sg EXCEPT !.wpc[w] = "returned"]
    /\ UNCHANGED <<flowVars, chunkerVars, storeVars, entityVars, requestVars,
                   chunkCallVars, rv, sf, ds, pool, tl, ex,
                   lc, cr>>

\* Progress 3 of 3, the refinement where needed, and the chunk returns.
RefineAndReturn(w) ==
    /\ sg.wpc[w] = "estimated"
    /\ sg' = [UpdateStageProgress(sg, "backtranslation", 3, 3)
                 EXCEPT !.wpc[w] = "returned"]
    /\ UNCHANGED <<flowVars, chunkerVars, storeVars, entityVars, requestVars,
                   chunkCallVars, rv, sf, ds, pool, tl, ex,
                   lc, cr>>

\* execute's as_completed loop takes a finished chunk: for a successful one
\* completed_chunks grows and
\* _update_stage_progress("translating", completed_chunks, total_chunks).
CollectResult(w) ==
    /\ sg.pc = "collect"
    /\ sg.wpc[w] \in {"returned", "failed"}
    /\ sg' = IF sg.wpc[w] = "failed"
             THEN [sg EXCEPT !.wpc[w] = "collected"]
             ELSE [UpdateStageProgress(sg, "translating",
                                       sg.completed_chunks + 1,
                                       sg.total_chunks)
                      EXCEPT !.wpc[w] = "collected",
                             !.completed_chunks = @ + 1]
    /\ UNCHANGED <<flowVars, chunkerVars, storeVars, entityVars, requestVars,
                   chunkCallVars, rv, sf, ds, pool, tl, ex,
                   lc, cr>>

\* After the pool: _unified_entity_check sets entity_check 0 of 1 at its
\* first chunk (there is none when every chunk failed) and 1 of 1 at its end.
StageEntityCheck ==
    /\ sg.pc \in {"collect", "entity_check"}
    /\ \A w \in StageWorkers : sg.wpc[w] \in {"none", "collected"}
    /\ sg' = IF sg.pc = "collect"
             THEN [(IF sg.completed_chunks > 0
                    THEN UpdateStageProgress(sg, "entity_check", 0, 1)
                    ELSE sg)
                      EXCEPT !.pc = "entity_check"]
             ELSE [UpdateStageProgress(sg, "entity_check", 1, 1)
                      EXCEPT !.pc = "done"]
    /\ UNCHANGED <<flowVars, chunkerVars, storeVars, entityVars, requestVars,
                   chunkCallVars, rv, sf, ds, pool, tl, ex,
                   lc, cr>>

-----------------------------------------------------------------------------
(* The translated-line counter: stats_data.line against total_line, over   *)
(* the chunks of a run and the executions of the pipeline                  *)

MaxCountChunks == 2

MaxCountLines == 2

CountChunks == 1..MaxCountChunks

\* The executions of the pipeline within the run: the first, and one more
\* when the tool is invoked again before the first has returned.
Executions == {1, 2}

LineCountIdle ==
    lc = [sizes |-> <<>>, total_line |-> 0, line |-> 0,
          translated |-> {}, returned |-> FALSE,
          pc |-> [e \in Executions |-> [k \in CountChunks |-> "none"]]]

\* multi_agent_translation_start: total_line is the number of untranslated
\* lines and line = 0; the first execution has submitted its chunks.
LineCountInit ==
    \E sizes \in SeqsUpTo(1..MaxCountLines, MaxCountChunks) :
        /\ sizes # <<>>
        /\ lc = [sizes |-> sizes, total_line |-> SumSeq(sizes), line |-> 0,
                 translated |-> {}, returned |-> FALSE,
                 pc |-> [e \in Executions |->
                            [k \in CountChunks |->
                                IF e = 1 /\ k <= Len(sizes)
                                THEN "translate" ELSE "none"]]]

\* _translate_chunk up to the cache update: the chunk is translated, or an
\* exception makes it return success = False.
TranslateLines(e, k) ==
    /\ lc.pc[e][k] = "translate"
    /\ \E raised \in BOOLEAN :
          lc' = [lc EXCEPT !.pc[e][k] = IF raised THEN "failed"
                                        ELSE "translated"]
    /\ UNCHANGED <<flowVars, chunkerVars, storeVars, entityVars, requestVars,
                   chunkCallVars, rv, sf, ds, pool, tl, ex, sg, cr>>

\* _update_line_stats(row_count): under atomic_scope line += row_count.
UpdateLineStats(line, row_count) == line + row_count

\* The end of a successful _translate_chunk: _update_cache_item marks the
\* chunk's items translated, _update_line_stats(chunk_size) adds them to
\* line and publishes the snapshot, and the chunk returns success = True.
CountChunk(e, k) ==
    /\ lc.pc[e][k] = "translated"
    /\ lc' = [lc EXCEPT !.pc[e][k] = "done",
                        !.translated = @ \cup {k},
                        !.line = UpdateLineStats(@, lc.sizes[k])]
    /\ UNCHANGED <<flowVars, chunkerVars, storeVars, entityVars, requestVars,
                   chunkCallVars, rv, sf, ds, pool, tl, ex, sg, cr>>

\* The first execution returns to the tool, which sets did_translate.
ExecutionReturns ==
    /\ ~lc.returned
    /\ \A k \in CountChunks : lc.pc[1][k] \in {"none", "done", "failed"}
    /\ lc' = [lc EXCEPT !.returned = TRUE]
    /\ UNCHANGED <<flowVars, chunkerVars, storeVars, entityVars, requestVars,
                   chunkCallVars, rv, sf, ds, pool, tl, ex, sg, cr>>

\* translate_and_refine is invoked again while did_translate is still
\* False: a second execute chunks the lines that are untranslated at that
\* moment and submits them.
SecondExecution ==
    /\ ~lc.returned
    /\ \A k \in CountChunks : lc.pc[2][k] = "none"
    /\ \E k \in CountChunks : k <= Len(lc.sizes) /\ k \notin lc.translated
    /\ lc' = [lc EXCEPT !.pc[2] =
                 [k \in CountChunks |->
                     IF k <= Len(lc.sizes) /\ k \notin lc.translated
                     THEN "translate" ELSE "none"]]
    /\ UNCHANGED <<flowVars, chunkerVars, storeVars, entityVars, requestVars,
                   chunkCallVars, rv, sf, ds, pool, tl, ex, sg, cr>>

-----------------------------------------------------------------------------
(* Chunk results: the four lists of a result, from _translate_chunk through *)
(* the unified review and the unified consistency check                    *)

MaxResultChunks == 1

MaxResultLines == 2

\* An entry of a list: the item (chunk, position in the chunk) it was
\* computed for, and what it holds.
Entry(chunk, item, text) == [chunk |-> chunk, item |-> item, text |-> text]

\* The same item under another text.
About(entry, text) == Entry(entry.chunk, entry.item, text)

\* None, as the batch helpers return it.
NONE == <<>>

BACK == "back"

LOW_SCORE == 6

DEFAULT_SCORE == 8

\* "score < 7.0"
REFINE_BELOW == 7

\* "source_texts = [item.source_text for item in chunk]"
SourceTexts(chunk) == [i \in 1..Len(chunk) |-> About(chunk[i], "source")]

\* _strategy_based_batch_translation: the keys 0..N-1 of the reply, "" for a
\* missing key; None when no key carried a text.
StrategyBasedBatchTranslation(source_texts, keys) ==
    IF keys = {} THEN NONE
    ELSE [i \in 1..Len(source_texts) |->
             About(source_texts[i], IF i \in keys THEN MT ELSE EMPTY)]

\* _fallback_translate_one_by_one: one text per source line, its
\* translation or the source marked as failed.
FallbackTranslateOneByOne(source_texts) ==
    [i \in 1..Len(source_texts) |-> About(source_texts[i], MT)]

\* Step 1 of _translate_chunk: the batch translation, the fallback on a
\* count mismatch or on None, then the retry of the empty lines.
TranslateStep(source_texts, keys) ==
    LET batch == StrategyBasedBatchTranslation(source_texts, keys)
        first == IF batch = NONE \/ Len(batch) # Len(source_texts)
                 THEN FallbackTranslateOneByOne(source_texts)
                 ELSE batch
    IN  [i \in 1..Len(first) |->
            IF first[i].text = EMPTY THEN About(source_texts[i], MT)
            ELSE first[i]]

\* _batch_back_translate: "for i in range(len(translated_texts))" one entry
\* per line, the extracted line or ""; None when nothing was extracted.
BatchBackTranslate(texts, keys) ==
    IF keys = {} THEN NONE
    ELSE [i \in 1..Len(texts) |-> About(texts[i], BACK)]

\* _batch_estimate_quality: "for i in range(len(source_texts))", the parsed
\* score or the default 8.0.
BatchEstimateQuality(source_texts, low) ==
    [i \in 1..Len(source_texts) |->
        About(source_texts[i],
              IF i \in low THEN LOW_SCORE ELSE DEFAULT_SCORE)]

NeedsRefinement(quality_scores) ==
    {i \in 1..Len(quality_scores) : quality_scores[i].text < REFINE_BELOW}

\* "to_refine_indices = [i for i, need in enumerate(needs_refinement) if need]"
ToRefineIndices(needs) ==
    [j \in 1..Cardinality(needs) |->
        CHOOSE i \in needs : Cardinality({h \in needs : h < i}) = j - 1]

\* A refinement written at the position of its key in the reply.
FillBackAtReplyKey(texts, indices, keys) ==
    [idx \in 1..Len(texts) |->
        IF idx \in keys
        THEN About(texts[indices[idx]], REFINED)
        ELSE texts[idx]]

\* "for i, idx in enumerate(to_refine_indices): refined_texts[idx] = ...":
\* the reply's key i refines the i-th line sent, which is line idx.
FillBack(texts, indices, keys) ==
    [idx \in 1..Len(texts) |->
        IF \E i \in keys : indices[i] = idx
        THEN LET i == CHOOSE i \in keys : indices[i] = idx
             IN  About(texts[indices[i]], REFINED)
        ELSE texts[idx]]

\* _batch_refine_translation: the texts with the refined lines filled back;
\* None when the request failed.
BatchRefineTranslation(texts, needs, keys) ==
    IF needs = {} THEN texts
    ELSE IF keys = {} THEN NONE
    ELSE FillBack(texts, ToRefineIndices(needs), keys)

\* "[8.0] * n" and "[""] * n": the defaults of the n positions of a chunk.
DefaultScores(n, chunk_idx) ==
    [i \in 1..n |-> Entry(chunk_idx, i, DEFAULT_SCORE)]

DefaultBacks(n, chunk_idx) == [i \in 1..n |-> Entry(chunk_idx, i, EMPTY)]

\* _batch_tear_verification_with_scores:
\* (verified_texts, quality_scores, back_translations).
BatchTearVerificationWithScores(source_texts, texts, chunk_idx, back_keys, low, refine_keys) ==
    LET back_translations == BatchBackTranslate(texts, back_keys)
        quality_scores == BatchEstimateQuality(source_texts, low)
        needs == NeedsRefinement(quality_scores)
        refined_texts == BatchRefineTranslation(texts, needs,
                                                refine_keys)
    IN  IF back_translations = NONE
        THEN <<texts,
               DefaultScores(Len(texts), chunk_idx),
               DefaultBacks(Len(texts), chunk_idx)>>
        ELSE IF needs = {} \/ refined_texts = NONE
        THEN <<texts, quality_scores, back_translations>>
        ELSE <<refined_texts, quality_scores, back_translations>>

\* The result of _translate_chunk after step 2: "if not verified_texts or
\* len(verified_texts) != chunk_size" the texts of step 1 with default
\* scores and empty back-translations.
ChunkResult(chunk, source_texts, texts, verified) ==
    LET chunk_size == Len(chunk)
        bad == verified[1] = NONE \/ Len(verified[1]) # chunk_size
    IN  [source_texts |-> source_texts,
         translated_texts |-> IF bad THEN texts ELSE verified[1],
         quality_scores |-> IF bad
                            THEN DefaultScores(chunk_size, chunk[1].chunk)
                            ELSE verified[2],
         back_translations |-> IF bad
                               THEN DefaultBacks(chunk_size, chunk[1].chunk)
                               ELSE verified[3],
         chunk_items |-> chunk]

IdleChunkResult ==
    [pc |-> "idle", chunks |-> 0, source_texts |-> <<>>,
     translated_texts |-> <<>>, all_chunks_data |-> <<>>, refined |-> 0,
     edits |-> 0]

ChunkResultIdle == cr = IdleChunkResult

\* execute has prepared its chunks; none is translated yet.
ChunkResultInit == cr = [IdleChunkResult EXCEPT !.pc = "ready"]

ResultVarsIdle ==
    <<flowVars, chunkerVars, storeVars, entityVars, requestVars,
      chunkCallVars, rv, sf, ds, pool, tl, ex, sg, lc>>

\* _translate_chunk, step 1: the chunk's source texts and their
\* translations; an exception returns success = False.
TranslateChunk ==
    /\ cr.pc = "ready"
    /\ cr.chunks < MaxResultChunks
    /\ \E n \in 1..MaxResultLines, raised \in BOOLEAN :
          \E keys \in SUBSET (1..n) :
              LET chunk == [i \in 1..n |-> Entry(cr.chunks + 1, i, "item")]
                  source_texts == SourceTexts(chunk)
                  texts ==
                      TranslateStep(source_texts, keys)
              IN  IF raised \/ Len(texts) # n
                  THEN cr' = [cr EXCEPT !.chunks = @ + 1]
                  ELSE cr' = [cr EXCEPT
                                 !.pc = "verify", !.chunks = @ + 1,
                                 !.source_texts = source_texts,
                                 !.translated_texts = texts]
    /\ UNCHANGED ResultVarsIdle

\* _translate_chunk, step 2 to the return: the verification, the length
\* test on its texts, and the result that execute appends to
\* all_chunks_data; an exception returns success = False.
VerifyAndReturn ==
    /\ cr.pc = "verify"
    /\ LET n == Len(cr.source_texts)
           chunk == [i \in 1..n |-> Entry(cr.chunks, i, "item")]
       IN  \E back_keys \in SUBSET (1..n), low \in SUBSET (1..n),
              raised \in BOOLEAN :
              \E refine_keys \in SUBSET (1..Cardinality(low)) :
              \E verified \in {BatchTearVerificationWithScores(
                                   cr.source_texts, cr.translated_texts,
                                   cr.chunks, back_keys, low, refine_keys)} :
              \E result \in {ChunkResult(chunk, cr.source_texts,
                                         cr.translated_texts, verified)} :
                      cr' = [cr EXCEPT
                                !.pc = "ready",
                                !.source_texts = <<>>,
                                !.translated_texts = <<>>,
                                !.refined =
                                    IF raised THEN @
                                    ELSE @ + Cardinality(
                                        {i \in 1..n :
                                            result.translated_texts[i].text
                                                = REFINED}),
                                !.all_chunks_data =
                                    IF raised THEN @ ELSE Append(@, result)]
    /\ UNCHANGED ResultVarsIdle

\* "for ... in zip(source_texts, translated_texts, quality_scores,
\* back_translations)": as many entries as the shortest list.
ZipLen(chunk_data) ==
    Min(Min(Len(chunk_data.source_texts), Len(chunk_data.translated_texts)),
        Min(Len(chunk_data.quality_scores),
            Len(chunk_data.back_translations)))

\* all_scores_with_index, in the order of the global index.
AllScoresWithIndex(chunks_data) ==
    Flatten([c \in 1..Len(chunks_data) |->
                [l \in 1..ZipLen(chunks_data[c]) |->
                    [chunk_idx |-> c, local_idx |-> l,
                     score |-> chunks_data[c].quality_scores[l].text,
                     source_text |-> chunks_data[c].source_texts[l]]]])

\* One decision of the review: "chunk_data["translated_texts"][local_idx]
\* = ..." with the text given or retranslated for the item shown.
ApplyDecision(chunks_data, target, action) ==
    IF action = "accept" THEN chunks_data
    ELSE [chunks_data EXCEPT
             ![target.chunk_idx].translated_texts[target.local_idx] =
                 About(target.source_text,
                       IF action = "custom" THEN CUSTOM ELSE RETRANSLATED)]

RECURSIVE ApplyDecisions(_, _, _, _)
ApplyDecisions(chunks_data, review_items, actions, j) ==
    IF j > Len(review_items) THEN chunks_data
    ELSE ApplyDecisions(ApplyDecision(chunks_data, review_items[j],
                                      actions[j]),
                        review_items, actions, j + 1)

\* _unified_human_review: skipped when the review is disabled; otherwise
\* the three lowest scores are shown and the decisions applied.
UnifiedHumanReview ==
    /\ cr.pc = "ready"
    /\ cr.chunks >= 1
    /\ \E all \in {AllScoresWithIndex(cr.all_chunks_data)} :
       \E scores \in {[g \in 1..Len(all) |-> all[g].score]} :
       \E lowest \in {Lowest3(scores)} :
       \E review_items \in {[j \in 1..Len(lowest) |-> all[lowest[j]]]} :
       \E enabled \in BOOLEAN :
       \E actions \in [1..Len(review_items) -> ReviewActions] :
          /\ ~enabled => \A j \in DOMAIN actions : actions[j] = "accept"
          /\ \E reviewed \in {ApplyDecisions(cr.all_chunks_data,
                                             review_items, actions, 1)} :
                cr' = [cr EXCEPT
                          !.pc = IF cr.all_chunks_data = <<>>
                                 THEN "done" ELSE "entity",
                          !.edits = Cardinality({j \in DOMAIN actions :
                                                    actions[j] # "accept"}),
                          !.all_chunks_data = reviewed]
    /\ UNCHANGED ResultVarsIdle

CHECKED == "checked"

\* _check_entity_consistency on the lists of a chunk: without mappings the
\* texts as they are; otherwise corrected_texts, one text, corrected or
\* not, for every pair of "zip(source_texts, translated_texts)".
CheckedTexts(source_texts, texts, has_mappings) ==
    IF ~has_mappings THEN texts
    ELSE [i \in 1..Min(Len(source_texts), Len(texts)) |->
             About(texts[i], CHECKED)]

\* _unified_entity_check: for every chunk
\* "chunk_data["translated_texts"] = checked_texts"; the mappings come from
\* the terminology of the run, the same for every chunk.
UnifiedEntityCheck ==
    /\ cr.pc = "entity"
    /\ \E has_mappings \in BOOLEAN :
          cr' = [cr EXCEPT
                    !.pc = "done",
                    !.all_chunks_data =
                        [c \in 1..Len(@) |->
                            [@[c] EXCEPT
                                !.translated_texts =
                                    CheckedTexts(cr.all_chunks_data[c].source_texts,
                                                 cr.all_chunks_data[c].translated_texts,
                                                 has_mappings)]]]
    /\ UNCHANGED ResultVarsIdle

-----------------------------------------------------------------------------
(* Specifications                                                          *)

StoreIdle == StoreInit

LateIdle ==
    DocStoreIdle /\ PoolIdle /\ ToolIdle /\ ExecutorIdle /\ StageIdle
    /\ LineCountIdle /\ ChunkResultIdle

InitChunker ==
    /\ ChunkerInit /\ StoreIdle /\ FlowIdle /\ EntityIdle
    /\ RequestIdle /\ ChunkCallIdle /\ ReviewSelectIdle /\ StoreFailIdle
    /\ LateIdle

NextChunker == PrepareChunks

SpecChunker == InitChunker /\ [][NextChunker]_vars

InitStore ==
    /\ StoreInit /\ ChunkerIdle /\ FlowIdle /\ EntityIdle
    /\ RequestIdle /\ ChunkCallIdle /\ ReviewSelectIdle /\ StoreFailIdle
    /\ LateIdle

NextStore ==
    \/ \E c \in Clients : TxBegin(c)
    \/ \E c \in Clients : TxUpdate(c)
    \/ \E c \in Clients : TxInsert(c)
    \/ \E c \in Clients : TxCommit(c)
    \/ \E c \in Clients : TxRollback(c)
    \/ \E c \in Clients : TxConnectFails(c)

SpecStore == InitStore /\ [][NextStore]_vars

InitFlow ==
    /\ FlowInit /\ StoreIdle /\ ChunkerIdle /\ EntityIdle
    /\ RequestIdle /\ ChunkCallIdle /\ ReviewSelectIdle /\ StoreFailIdle
    /\ LateIdle

NextFlow ==
    \/ TaskStart
    \/ PlanningDone
    \/ PreprocessText
    \/ IdentifyTerminology
    \/ TaskFinished
    \/ TranslateAndRefine
    \/ \E k \in Atoms : WkTranslate(k)
    \/ \E k \in Atoms : WkTearVerify(k)
    \/ \E k \in Atoms : WkDraftUpdate(k)
    \/ HumanReviewStart
    \/ ReviewDecision
    \/ UpdateAtomStep
    \/ HumanReviewEnd
    \/ EntityCheckChunk
    \/ ExecuteReturn
    \/ WorkflowCheck
    \/ SaveAndComplete
    \/ TaskStop

SpecFlow == InitFlow /\ [][NextFlow]_vars

InitEntity ==
    /\ EntityInit /\ StoreIdle /\ ChunkerIdle /\ FlowIdle
    /\ RequestIdle /\ ChunkCallIdle /\ ReviewSelectIdle /\ StoreFailIdle
    /\ LateIdle

NextEntity == CheckLine

SpecEntity == InitEntity /\ [][NextEntity]_vars

\* The driver of FlowInit at rest, while a run is in progress elsewhere.
DriverIdle ==
    /\ drv = [pc |-> "idle", decisions |-> 0, chunk_idx |-> 0,
              pend |-> NoWrite, result |-> "none",
              review_invoked |-> FALSE, review_result |-> "not_called"]
    /\ published = <<>>
    /\ tool_calls = {}
    /\ workflow_state = [did_translate |-> FALSE, translation_results |-> 0,
                         enable_human_review |-> FALSE]
    /\ wk = [k \in Atoms |-> [pc |-> "none", stage_sent |-> FALSE]]
    /\ translated_texts = [k \in Atoms |-> NULL]
    /\ cache_items = [k \in Atoms |-> NULL]
    /\ all_chunks_data = <<>>
    /\ agent_attrs = {}

InitRequest ==
    /\ RequestInit
    /\ work_status = "TASKING"
    /\ project = [lines |-> 0, has_atom_map |-> FALSE]
    /\ DriverIdle /\ ChunkCallIdle /\ StoreIdle /\ ChunkerIdle /\ EntityIdle
    /\ ReviewSelectIdle /\ StoreFailIdle
    /\ LateIdle

NextRequest ==
    \/ \E t \in Threads : BeginRequest(t)
    \/ \E t \in Threads : TestFlag(t)
    \/ \E t \in Threads : CheckLimiter(t)
    \/ \E t \in Threads : TrackBegin(t)
    \/ \E t \in Threads : CallEnds(t)
    \/ \E t \in Threads : TrackEnd(t)
    \/ TaskStop

SpecRequest == InitRequest /\ [][NextRequest]_vars

InitChunkCall ==
    /\ ChunkCallInit
    /\ DriverIdle /\ RequestIdle /\ StoreIdle /\ ChunkerIdle /\ EntityIdle
    /\ ReviewSelectIdle /\ StoreFailIdle
    /\ LateIdle

NextChunkCall ==
    \/ BatchAcquire
    \/ BatchReply
    \/ SingleAcquire
    \/ SingleReply
    \/ Step2Acquire
    \/ Step2Reply
    \/ CommitChunk
    \/ TaskStop

SpecChunkCall == InitChunkCall /\ [][NextChunkCall]_vars

InitReviewSelect ==
    /\ ReviewSelectInit
    /\ work_status = "TASKING"
    /\ project = [lines |-> 0, has_atom_map |-> FALSE]
    /\ DriverIdle /\ RequestIdle /\ ChunkCallIdle /\ StoreIdle /\ ChunkerIdle
    /\ EntityIdle /\ StoreFailIdle /\ LateIdle

NextReviewSelect == SelectReviewItems

SpecReviewSelect == InitReviewSelect /\ [][NextReviewSelect]_vars

InitPlanner ==
    /\ PlannerInit /\ StoreIdle /\ FlowIdle /\ EntityIdle
    /\ RequestIdle /\ ChunkCallIdle /\ ReviewSelectIdle /\ StoreFailIdle
    /\ LateIdle

NextPlanner ==
    \/ AnalyzeChunks
    \/ PrepareChunks

SpecPlanner == InitPlanner /\ [][NextPlanner]_vars

InitStoreFail ==
    /\ StoreFailInit
    /\ work_status = "TASKING"
    /\ project = [lines |-> 0, has_atom_map |-> FALSE]
    /\ DriverIdle /\ RequestIdle /\ ChunkCallIdle /\ StoreIdle /\ ChunkerIdle
    /\ EntityIdle /\ ReviewSelectIdle /\ LateIdle

NextStoreFail ==
    \/ DbPhaseOne
    \/ EvaluateTrace
    \/ DraftTrace
    \/ DraftUpdate
    \/ ReviewTrace
    \/ EntityTrace
    \/ StoreFailCheck

SpecStoreFail == InitStoreFail /\ [][NextStoreFail]_vars

InitDocStore ==
    /\ DocStoreInit
    /\ work_status = "TASKING"
    /\ project = [lines |-> 0, has_atom_map |-> FALSE]
    /\ DriverIdle /\ RequestIdle /\ ChunkCallIdle /\ StoreIdle /\ ChunkerIdle
    /\ EntityIdle /\ ReviewSelectIdle /\ StoreFailIdle /\ PoolIdle
    /\ ToolIdle /\ ExecutorIdle /\ StageIdle /\ LineCountIdle
    /\ ChunkResultIdle

NextDocStore ==
    \/ CreateDocument
    \/ \E c \in BatchClients : BatchInsert(c)
    \/ \E c \in BatchClients : BatchSelect(c)

SpecDocStore == InitDocStore /\ [][NextDocStore]_vars

InitPool ==
    /\ PoolInit
    /\ work_status = "TASKING"
    /\ project = [lines |-> 0, has_atom_map |-> FALSE]
    /\ DriverIdle /\ RequestIdle /\ ChunkCallIdle /\ StoreIdle /\ ChunkerIdle
    /\ EntityIdle /\ ReviewSelectIdle /\ StoreFailIdle /\ DocStoreIdle
    /\ ToolIdle /\ ExecutorIdle /\ StageIdle /\ LineCountIdle
    /\ ChunkResultIdle

NextPool ==
    \/ CreateExecutionPlan
    \/ SizePool
    \/ Submit
    \/ PoolShutdown

SpecPool == InitPool /\ [][NextPool]_vars

InitTool ==
    /\ ToolInit
    /\ work_status = "TASKING"
    /\ project = [lines |-> 0, has_atom_map |-> FALSE]
    /\ DriverIdle /\ RequestIdle /\ ChunkCallIdle /\ StoreIdle /\ ChunkerIdle
    /\ EntityIdle /\ ReviewSelectIdle /\ StoreFailIdle /\ DocStoreIdle
    /\ PoolIdle /\ ExecutorIdle /\ StageIdle /\ LineCountIdle
    /\ ChunkResultIdle

NextTool ==
    \/ \E i \in Invocations : ToolInvoke(i)
    \/ \E i \in Invocations : ToolExecuteStart(i)
    \/ \E i \in Invocations : ToolExecuteEnd(i)

SpecTool == InitTool /\ [][NextTool]_vars

InitExecutor ==
    /\ ExecutorInit
    /\ work_status = "IDLE"
    /\ project = [lines |-> 0, has_atom_map |-> FALSE]
    /\ DriverIdle /\ RequestIdle /\ ChunkCallIdle /\ StoreIdle /\ ChunkerIdle
    /\ EntityIdle /\ ReviewSelectIdle /\ StoreFailIdle /\ DocStoreIdle
    /\ PoolIdle /\ ToolIdle /\ StageIdle /\ LineCountIdle
    /\ ChunkResultIdle

NextExecutor ==
    \/ Configure
    \/ LoadProject
    \/ LoadFromFile
    \/ CountLines
    \/ DbInit
    \/ RunWorkflow
    \/ SaveOutput
    \/ Finally
    \/ CancelRun

SpecExecutor == InitExecutor /\ [][NextExecutor]_vars

InitStage ==
    /\ StageInit
    /\ work_status = "TASKING"
    /\ project = [lines |-> 0, has_atom_map |-> FALSE]
    /\ DriverIdle /\ RequestIdle /\ ChunkCallIdle /\ StoreIdle /\ ChunkerIdle
    /\ EntityIdle /\ ReviewSelectIdle /\ StoreFailIdle /\ DocStoreIdle
    /\ PoolIdle /\ ToolIdle /\ ExecutorIdle /\ LineCountIdle
    /\ ChunkResultIdle

NextStage ==
    \/ \E w \in StageWorkers : BackTranslate(w)
    \/ \E w \in StageWorkers : EstimateQuality(w)
    \/ \E w \in StageWorkers : RefineAndReturn(w)
    \/ \E w \in StageWorkers : CollectResult(w)
    \/ StageEntityCheck

SpecStage == InitStage /\ [][NextStage]_vars

InitLineCount ==
    /\ LineCountInit
    /\ work_status = "TASKING"
    /\ project = [lines |-> 0, has_atom_map |-> FALSE]
    /\ DriverIdle /\ RequestIdle /\ ChunkCallIdle /\ StoreIdle /\ ChunkerIdle
    /\ EntityIdle /\ ReviewSelectIdle /\ StoreFailIdle /\ DocStoreIdle
    /\ PoolIdle /\ ToolIdle /\ ExecutorIdle /\ StageIdle
    /\ ChunkResultIdle

NextLineCount ==
    \/ \E e \in Executions, k \in CountChunks : TranslateLines(e, k)
    \/ \E e \in Executions, k \in CountChunks : CountChunk(e, k)
    \/ ExecutionReturns
    \/ SecondExecution

SpecLineCount == InitLineCount /\ [][NextLineCount]_vars

InitChunkResult ==
    /\ ChunkResultInit
    /\ work_status = "TASKING"
    /\ project = [lines |-> 0, has_atom_map |-> FALSE]
    /\ DriverIdle /\ RequestIdle /\ ChunkCallIdle /\ StoreIdle /\ ChunkerIdle
    /\ EntityIdle /\ ReviewSelectIdle /\ StoreFailIdle /\ DocStoreIdle
    /\ PoolIdle /\ ToolIdle /\ ExecutorIdle /\ StageIdle /\ LineCountIdle

NextChunkResult ==
    \/ TranslateChunk
    \/ VerifyAndReturn
    \/ UnifiedHumanReview
    \/ UnifiedEntityCheck

SpecChunkResult == InitChunkResult /\ [][NextChunkResult]_vars

-----------------------------------------------------------------------------
(* Claims                                                                  *)

\* C1: in every reachable state of the store, every atom has at most one
\* trace with is_active = TRUE, also when add_trace calls for the same atom
\* overlap.
C1_AtMostOneActiveTrace ==
    \A a \in Atoms : Cardinality(ActiveRows(st_traces, a)) <= 1

\* The untranslated items of the project in file order: what the chunker is
\* given to pack.
ChunkerItems == UntranslatedOf(ck_input, 1) \o UntranslatedOf(ck_input, 2)

\* C8: the chunks concatenated in order are exactly the input item sequence,
\* and a chunk exceeds the 6000-character budget only when it is a single
\* item that is itself longer than the budget.
C8_ChunksPartitionWithinBudget ==
    ck_pc = "done" =>
        /\ Flatten(ck_chunks) = ChunkerItems
        /\ \A k \in 1..Len(ck_chunks) :
              \/ SumLen(ck_chunks[k]) <= MAX_CHUNK_CHARS
              \/ /\ Len(ck_chunks[k]) = 1
                 /\ ck_chunks[k][1].len > MAX_CHUNK_CHARS

\* C8 witness: an over-budget item was isolated in a chunk of its own,
\* and another chunk packs two items.
C8_Witness ==
    /\ ck_pc = "done"
    /\ \E k \in 1..Len(ck_chunks) :
          Len(ck_chunks[k]) = 1 /\ ck_chunks[k][1].len > MAX_CHUNK_CHARS
    /\ \E k \in 1..Len(ck_chunks) : Len(ck_chunks[k]) = 2

IsPrefix(s, t) == Len(s) <= Len(t) /\ \A i \in 1..Len(s) : s[i] = t[i]

\* A sequence with every run of equal neighbours reduced to one element.
RECURSIVE Collapse(_)
Collapse(s) ==
    IF Len(s) <= 1 THEN s
    ELSE IF s[1] = s[2] THEN Collapse(Tail(s))
         ELSE <<s[1]>> \o Collapse(Tail(s))

Count(s, x) == Cardinality({i \in 1..Len(s) : s[i] = x})

EarlyToolsInvoked ==
    /\ drv.pc \notin {"idle", "planning", "task1"}
          => "preprocess_text" \in tool_calls
    /\ drv.pc \notin {"idle", "planning", "task1", "task2"}
          => "identify_terminology" \in tool_calls

C3_StatusCodeNonDecreasing ==
    [][\A a \in Atoms :
          st_atoms'[a].status_code >= st_atoms[a].status_code]_vars

Rank(action_type) ==
    CASE action_type = "draft" -> 1
      [] action_type = "evaluate" -> 2
      [] action_type \in {"human_edit", "refine"} -> 3
      [] OTHER -> 4

\* C4: the traces of every atom are created in the order draft, evaluate,
\* human_edit or refine, final.
C4_TraceOrder ==
    \A a \in Atoms :
        \A i, j \in 1..Len(st_traces[a]) :
            i < j => Rank(st_traces[a][i].action)
                        <= Rank(st_traces[a][j].action)

\* C5: once the run has completed successfully, every atom that received a
\* translation has status_code 4.
C5_TranslatedAtomsFinal ==
    (drv.pc = "stopped" /\ drv.result = "success") =>
        \A a \in Atoms :
            st_atoms[a].translated_text # NULL => st_atoms[a].status_code = 4

\* C6: whenever no store call is in progress, for every atom with an active
\* trace get_active_translation returns the atom's translated_text.
C6_ActiveTraceIsTranslatedText ==
    \A a \in Atoms :
        ActiveRows(st_traces, a) # {} =>
            GetActiveTranslation(st_traces, a) = {st_atoms[a].translated_text}

\* C9: when the translation tool never ran or no chunk produced a result,
\* execute_workflow ends by raising and never by returning success.
C9_ZeroResultsRaise ==
    (/\ drv.result # "none"
     /\ \/ "translate_and_refine" \notin tool_calls
        \/ Len(all_chunks_data) = 0)
        => drv.result = "raised"

\* C9 witness: the translation ran over a non-empty project, every chunk
\* failed, and execute_workflow raised.
C9_Witness ==
    /\ drv.result = "raised"
    /\ project.lines > 0
    /\ workflow_state.did_translate
    /\ Len(all_chunks_data) = 0

LaterStages == {"entity_check", "saving", "completed"}

\* C10: once the stop flag is raised, the human review is not started and
\* none of entity_check, saving, completed is published for the first time.
C10_NoStageStartsAfterStop ==
    [][work_status = "STOPING" =>
          /\ drv'.review_invoked = drv.review_invoked
          /\ \A s \in LaterStages :
                Count(published, s) = 0 => Count(published', s) = 0]_vars

\* C7: after the consistency check, for a translated line and every entry
\* of the term table whose term occurs (case-insensitively) in the source,
\* the line contains the entry's translation (case-insensitively, hyphens
\* and whitespace ignored) or the line was reported as inconsistent.
C7_TermsEnforcedOrReported ==
    (ec_pc = "done" /\ ec_in.translated_text # <<>>) =>
        \A i \in 1..Len(ec_in.terminology_db) :
            LET e == ec_in.terminology_db[i]
            IN  Contains(Lower(e.term), Lower(ec_in.source_text)) =>
                    \/ Contains(StripHyphens(Lower(e.translation)),
                                StripHyphens(Lower(ec_out.text)))
                    \/ ec_out.reported

\* C11: once the stop flag is raised, a line whose chunk had not been
\* committed is not marked translated and receives no translation text, in
\* the cache or in the store.
C11_StoppedChunksKeepState ==
    [][\A k \in Atoms :
          (work_status = "STOPING" /\ cache_items[k] = NULL)
              => /\ cache_items'[k] = NULL
                 /\ st_atoms'[k] = st_atoms[k]]_vars

\* C16: while a chunk is still being translated or verified, no line of any
\* chunk has been written to the cache items or to the store.
C16_NoCommitBeforeCrossBatch ==
    (drv.pc = "pool" /\ \E k \in Chunks : wk[k].pc \in {"translate", "tear"})
        => /\ \A k \in Atoms : cache_items[k] = NULL
           /\ TotalRows(st_traces) = 0

C12_InFlightResultDiscarded == tc.pc = "returned" => tc.stale = {}

\* C17: the store is written and the translated-line count is raised only
\* for a chunk whose step 2 (back-translation and scoring) succeeded.
C17_CommitOnlyAfterStep2 ==
    (stats_line > 0 \/ TotalRows(st_traces) > 0) => tc.step2 = "ok"

\* C19: when the batch reply carried a number of lines different from the
\* chunk size N, step 1 has made N single-line requests, one for each line.
C19_MismatchRetranslatesAll ==
    (/\ tc.pc \in {"step2", "step2_call", "commit", "returned"}
     /\ tc.reply_count # -1
     /\ tc.reply_count # Len(tc.src))
        => tc.single_calls = Len(tc.src)

\* C20: at the end of step 1 a problem line holds either the placeholder or
\* a single-line translation that is not empty and not truncated.
C20_FailedRetryLeavesPlaceholder ==
    tc.pc = "step2"
        => \A i \in tc.problem :
              \/ tc.texts[i] = PLACEHOLDER
              \/ /\ tc.texts[i] # EMPTY
                 /\ ~IsTruncated(tc.src[i], tc.texts[i])

\* C13 as stated: once the stop flag is raised no acquire returns permitted,
\* and an acquire sleeps at most once more before it returns.
C13_NoPermitAfterStop ==
    \A t \in Threads :
        /\ ~th[t].granted_stopped
        /\ th[t].slept_stopped <= 1

\* C13: an acquire started after the stop flag was raised returns the
\* cancellation at its first test of the flag; an acquire already blocked
\* sleeps at most once more and returns it at its next test; permitted is
\* returned under a raised flag only by an acquire that had passed the flag
\* test of its current poll before the flag was raised.
C13_CancelledAtNextFlagTest ==
    \A t \in Threads :
        /\ th[t].slept_stopped <= 1
        /\ (th[t].begun_stopped /\ HasLimiter(th[t].agent))
               => /\ th[t].pc \in {"wait", "idle"}
                  /\ th[t].pc = "idle" => th[t].outcome = "cancelled"
        /\ th[t].granted_stopped
               => ~th[t].begun_stopped /\ th[t].slept_stopped = 0
        /\ (th[t].slept_stopped = 1 /\ th[t].pc # "wait")
               => th[t].outcome = "cancelled"

C13_Witness ==
    \E t, u \in Threads :
        /\ t # u
        /\ th[t].outcome = "cancelled"
        /\ ~th[t].begun_stopped
        /\ th[t].slept_stopped = 1
        /\ th[u].begun_stopped
        /\ th[u].outcome = "cancelled"

\* C14: a request is being sent only by a thread whose limiter wait for
\* this request returned permitted.
C14_NoRequestWithoutPermit ==
    \A t \in Threads : th[t].pc = "sending" => th[t].outcome = "permitted"

BelowThreshold == {i \in DOMAIN rv.scores : rv.scores[i] < rv.review_threshold}

\* C21: when human review is enabled and a callback exists, the review batch
\* is every line whose score is below review_threshold; only when there is no
\* such line is it the three lowest-scored lines.
C21_BatchIsBelowThresholdLines ==
    rv.pc = "called" =>
        LET batch == {rv.review_items[j] : j \in DOMAIN rv.review_items}
            n == Len(rv.scores)
        IN  IF BelowThreshold # {}
            THEN batch = BelowThreshold
            ELSE /\ Cardinality(batch) = (IF n < 3 THEN n ELSE 3)
                 /\ \A i \in batch : \A j \in (1..n) \ batch :
                        rv.scores[i] <= rv.scores[j]

\* The last row of an atom's traces is a human_edit row holding the text the
\* line now has, and it is the atom's only active row.
HumanEditActive(traces, texts, k) ==
    /\ traces[k] # <<>>
    /\ traces[k][Len(traces[k])].action = "human_edit"
    /\ traces[k][Len(traces[k])].content = texts[k]
    /\ ActiveRows(traces, k) = {Len(traces[k])}

C23_EveryDecisionEmitsTrace ==
    [][(project.has_atom_map /\ drv'.decisions = drv.decisions + 1)
          => TotalRows(st_traces') = TotalRows(st_traces) + 1]_vars

\* C24: when the review callback is absent or returns nothing, the review
\* stage applies no decision, changes no translation and writes no trace,
\* raises no error, and the run goes on to the consistency check with the
\* machine translations.
C24_NoReviewChangesNothing ==
    drv.review_result # "decisions"
        => /\ drv.pc # "decisions"
           /\ drv.decisions = 0
           /\ drv.result = "raised" => Len(all_chunks_data) = 0
           /\ \A k \in Atoms :
                 /\ translated_texts[k] \notin {CUSTOM, RETRANSLATED}
                 /\ st_atoms[k].status_code \notin {2, 3}
                 /\ \A i \in 1..Len(st_traces[k]) :
                       st_traces[k][i].action \notin {"human_edit", "refine"}

C24_Witness ==
    /\ drv.pc = "entity"
    /\ drv.review_result = "null"
    /\ drv.chunk_idx = 1
    /\ project.has_atom_map
    /\ \E k \in Atoms : translated_texts[k] = MT

\* C25: a line that the consistency check lists in its report of remaining
\* inconsistencies is not mutated by the check: its text after the check
\* equals its text before.
C25_ReportedLineNotMutated ==
    (ec_pc = "done" /\ ec_out.reported)
        => ec_out.text = ec_in.translated_text

\* The rows of one action type among an atom's traces.
RowsOf(traces, k, action_type) ==
    {i \in 1..Len(traces[k]) : traces[k][i].action = action_type}

\* C26: after a successful run on a new project (one whose atom map was not
\* restored from an earlier run), every translated line's atom has exactly
\* one draft trace and one evaluate trace in the store, the draft trace
\* being active when no later stage changed the text.
C26_NewProjectHasDraftAndEvaluate ==
    (drv.pc = "stopped" /\ drv.result = "success" /\ ~project.has_atom_map)
        => \A k \in Chunks :
              cache_items[k] # NULL
                  => /\ Cardinality(RowsOf(st_traces, k, "draft")) = 1
                     /\ Cardinality(RowsOf(st_traces, k, "evaluate")) = 1
                     /\ cache_items[k] \in {MT, PLACEHOLDER}
                           => ActiveRows(st_traces, k)
                                  = RowsOf(st_traces, k, "draft")

C28_EvaluateLeavesActiveTrace ==
    [][\A a \in Atoms :
          (/\ Len(st_traces'[a]) = Len(st_traces[a]) + 1
           /\ st_traces'[a][Len(st_traces'[a])].action = "evaluate")
              => /\ ~st_traces'[a][Len(st_traces'[a])].is_active
                 /\ ActiveRows(st_traces', a) = ActiveRows(st_traces, a)
                 /\ \A i \in 1..Len(st_traces[a]) :
                       st_traces'[a][i] = st_traces[a][i]]_vars

C28_Witness ==
    \E a \in Atoms :
        /\ Len(st_traces[a]) = 2
        /\ st_traces[a][1].is_active
        /\ st_traces[a][2].action = "evaluate"
        /\ ActiveRows(st_traces, a) = {1}

\* C29: if add_trace fails at any point for a trace of type draft, refine,
\* final or human_edit, its transaction is rolled back: the trace that was
\* active before is still active and no new trace row exists.
C29_FailedAddTraceLeavesNoTrace ==
    [][\A c \in Clients :
          (/\ st_tx'[c] # st_tx[c]
           /\ st_tx'[c].returned \in {"failed", "raised"}
           /\ st_tx[c].pc = "idle" \/ IsTranslationAction(st_tx[c].action))
              => st_traces' = st_traces]_vars

\* An add_trace call has failed and an atom holds its one active trace.
C29_Witness ==
    \E c \in Clients, a \in Atoms :
        /\ st_tx[c].pc = "idle"
        /\ st_tx[c].returned = "failed"
        /\ Len(st_traces[a]) = 1
        /\ ActiveRows(st_traces, a) = {1}

\* C30: a failing store call (project or document creation, trace insert,
\* atom update) never aborts the pipeline: the run continues on its
\* in-memory state, every translated chunk stays in the results, and the
\* output files are still produced.
C30_StoreFailureNeverAborts ==
    sf.pc = "ended" =>
        /\ sf.result = "saved"
        /\ Len(sf.all_chunks_data) = sf.lines

\* C31: registering a document for the same (work_id, file_path) twice
\* returns the same doc_id and leaves exactly one source_docs row for that
\* pair.
C31_DocumentRegisteredOnce ==
    \A i, j \in 1..Len(ds.calls) :
        (/\ i < j
         /\ ds.calls[i].doc_id # 0 /\ ds.calls[j].doc_id # 0
         /\ ds.calls[i].work_id = ds.calls[j].work_id
         /\ ds.calls[i].file_path = ds.calls[j].file_path)
        => /\ ds.calls[i].doc_id = ds.calls[j].doc_id
           /\ Cardinality({d \in 1..Len(ds.docs) :
                  /\ ds.docs[d].work_id = ds.calls[i].work_id
                  /\ ds.docs[d].file_path = ds.calls[i].file_path}) = 1

\* C32: a batch that inserted atoms returns exactly the ids of those atoms,
\* in position order, also when the document already holds atoms or another
\* batch is inserted into it at the same time.  (The positions of a batch
\* ascend, so its ids in insertion order are its ids in position order.)
C32_BatchReturnsItsOwnIds ==
    \A c \in BatchClients :
        (ds.bt[c].pc = "done" /\ ds.bt[c].ids # <<>>)
        => ds.bt[c].result = ds.bt[c].ids

\* C33: the size of the translation pool is the planner's max_workers (5,
\* 10 or 15 by complexity) capped at the number of chunks, so the pool is
\* never larger than the number of chunks.
C33_PoolCappedAtChunks ==
    (pool.pc \in {"submit", "done"} /\ pool.plan_workers # 0)
    => /\ pool.plan_workers \in {5, 10, 15}
       /\ pool.max_workers = Min(pool.plan_workers, Len(pool.chunks))

\* C34: callers blocked in _wait_for_limiter are let through in the order
\* in which they started to wait: no caller is granted while a caller that
\* was already waiting when it arrived is still waiting.
C34_BlockedCallersGrantedFifo ==
    [][\A t \in Threads :
          (th[t].pc = "check" /\ th'[t].pc = "track")
          => th[t].ahead = {}]_vars

\* C35: during the translation stage a chunk worker writes only to its own
\* result slots (its line's text and its cache item), and no shared variable
\* is written by two different workers: the agent attribute
\* _backtranslation_stage_sent is not set by a worker after another worker
\* has set it.
C35_WorkersWriteOwnSlotsOnly ==
    [][\A k \in Atoms :
          (drv.pc = "pool" /\ wk'[k] # wk[k])
          => /\ \A j \in Atoms \ {k} :
                   /\ translated_texts'[j] = translated_texts[j]
                   /\ cache_items'[j] = cache_items[j]
             /\ (wk[k].pc = "tear" /\ ~wk[k].stage_sent)
                => "_backtranslation_stage_sent" \notin agent_attrs]_vars

\* C36: within one workflow run TranslationRefinementAgent.execute is
\* executed at most once, however often the translate_and_refine tool is
\* invoked, one call after the other or at the same time.
C36_PipelineExecutedAtMostOnce == tl.executions <= 1

\* C37: every call of multi_agent_translation_start ends with work_status =
\* TASKSTOPPED and with TASK_STOP_DONE emitted exactly once, whether the run
\* succeeded, raised at any step, or was cancelled.
C37_EveryCallEndsStopped ==
    [][(ex.pc # "ended" /\ ex'.pc = "ended")
       => work_status' = "TASKSTOPPED" /\ ex'.stop_done = 1]_vars

\* C38: while chunks are processed concurrently, stats_data.current_stage
\* never moves back to an earlier stage of the stage order (for instance
\* from backtranslation to translating).
C38_CurrentStageNeverMovesBack ==
    [][StageIndex(sg'.current_stage) >= StageIndex(sg.current_stage)]_vars

\* C39: the completed-line counter is increased exactly once for every
\* successfully translated chunk, by the chunk's number of items, and not
\* for a failed chunk: line is the number of lines of the translated chunks
\* and never exceeds total_line.
C39_LineCountsTranslatedChunksOnce ==
    /\ lc.line = SumSeq([k \in 1..Len(lc.sizes) |->
                            IF k \in lc.translated THEN lc.sizes[k] ELSE 0])
    /\ lc.line <= lc.total_line

\* C40: in every chunk result with success = true the lists source_texts,
\* translated_texts, quality_scores and back_translations have as many
\* entries as the chunk has items, and entry i of each belongs to item i;
\* this is so when the result is returned after the refinement, and
\* remains so after the human review and the consistency check.
AlignedWith(list, chunk_items) ==
    /\ Len(list) = Len(chunk_items)
    /\ \A i \in 1..Len(list) :
          /\ list[i].chunk = chunk_items[i].chunk
          /\ list[i].item = chunk_items[i].item

=============================================================================
